---- MODULE Spec2Model ----
(***************************************************************************)
(* Model of the semantic chunker of utils.js (semanticChunkWithLimits and   *)
(* cosineSimilarity).  One call of semanticChunkWithLimits is a state       *)
(* machine: the sentences are embedded by concurrent embedFn calls that     *)
(* settle in any order, Promise.all gathers them, and the synchronous for   *)
(* loop walks the sentences deciding where to split.                        *)
(*                                                                         *)
(* A sentence is an atom (a string naming it); the tokenizer and the        *)
(* embedding provider are tables over the sentence catalogue.  A chunk text *)
(* is the sequence of its sentences with the separator " " between them,    *)
(* as Array.prototype.join builds it.  Embeddings are small integer vectors *)
(* and the threshold is a rational num/den, so the comparison               *)
(* similarity < threshold is decided exactly; the vectors and thresholds    *)
(* chosen keep every similarity away from the threshold, where floating     *)
(* point and exact arithmetic agree.                                        *)
(*                                                                         *)
(* The second part models the retrieval evaluation of test.js               *)
(* (calculateKeywordCoverage, calculateMRR, calculateNDCG, evaluateTestCase *)
(* and runFullEvaluation).  Numbers are exact: a value is a quotient of two *)
(* integer polynomials in lambda = 1 / log2(3), the only irrational         *)
(* discount of a slate of three results, or NaN.                            *)
(***************************************************************************)
EXTENDS Integers, Sequences, FiniteSets, TLC

VARIABLES
    sentences,           \* splitIntoSentences(text): the segmented document
    threshold,           \* options.threshold, a rational [num, den]
    maxTokens,           \* options.maxTokens
    minTokens,           \* options.minTokens
    pc,                  \* position of the async function
    calls,               \* state of the promise of embedFn(sentences[k])
    values,              \* Promise.all's result array, filled as calls fulfil
    sentenceEmbeddings,  \* the awaited array
    chunks,              \* final output
    currentSentences,    \* sentences accumulated for the current chunk
    currentTokens,       \* token count of the current chunk
    i,                   \* loop index, 1-based
    collection,          \* the points of my_rag_collection (their payload texts)
    testQuestions,       \* loadTestQuestions(...): the test cases of the run
    evalPc,              \* position of runFullEvaluation
    evalI,               \* loop index of runFullEvaluation, 1-based
    searched,            \* what qdrant.search answered to each question so far
    results,             \* per-question results pushed so far
    totalQuestions,      \* evaluationResults.totalQuestions
    aggregateMetrics,    \* evaluationResults.aggregateMetrics
    metricsByCategory,   \* evaluationResults.metricsByCategory
    benchIndex,          \* the points of the ragbench collection
    groundTruth,         \* qrels[queryId]: {doc_id, section_id}
    benchResults,        \* what qdrant.search('ragbench', ...) answered
    benchMetrics,        \* the metrics of the query
    benchPc,             \* position in the evaluation of the query
    files,               \* getAllFiles(FOLDER): {relativePath, content}
    store,               \* my_rag_collection on the server: exists, points
    exists,              \* the script's const exists
    ingestPc,            \* position of the ingestion script
    fileI,               \* index of the file being processed, 1-based
    fileChunks,          \* the chunks of the file being processed
    chunkI,              \* index of the chunk being uploaded, 1-based
    vector,              \* the embedding of the chunk being uploaded
    uuids,               \* number of crypto.randomUUID() calls so far
    qdrantCalls,         \* the calls the server has served, in order
    produced             \* what each chunking of this run returned

chunkVars == <<sentences, threshold, maxTokens, minTokens, pc, calls, values,
               sentenceEmbeddings, chunks, currentSentences, currentTokens, i>>

evalVars == <<collection, testQuestions, evalPc, evalI, searched, results,
              totalQuestions, aggregateMetrics, metricsByCategory>>

benchVars == <<benchIndex, groundTruth, benchResults, benchMetrics, benchPc>>

ingestVars == <<files, store, exists, ingestPc, fileI, fileChunks, chunkI,
                vector, uuids, qdrantCalls, produced>>

vars == <<chunkVars, evalVars, benchVars, ingestVars>>

\* What the steps of one program leave alone: the state of the others.
notChunkVars == <<evalVars, benchVars, ingestVars>>

notEvalVars == <<chunkVars, benchVars, ingestVars>>

notBenchVars == <<chunkVars, evalVars, ingestVars>>

----------------------------------------------------------------------------
(* Bounds and inputs *)

MaxLen == 3

\* The sentences a document is made of.
SentenceCatalogue == {"p1", "p2", "c1", "z", "big"}

\* encode(sent).length for each sentence of the catalogue.
Tokens(sent) ==
    CASE sent = "p1"  -> 2
      [] sent = "p2"  -> 1
      [] sent = "c1"  -> 1
      [] sent = "z"   -> 1
      [] sent = "big" -> 4
      [] sent = "paris"      -> 7
      [] sent = "eiffel"     -> 8
      [] sent = "eiffelLong" -> 496
      [] sent = "cats"       -> 5
      [] sent = "companions" -> 8

\* What the provider returns for embedFn(sent); "z" embeds to the zero vector.
EmbedFn(sent) ==
    CASE sent = "p1"  -> <<1, 0>>
      [] sent = "p2"  -> <<1, 1>>
      [] sent = "c1"  -> <<0, 1>>
      [] sent = "z"   -> <<0, 0>>
      [] sent = "big" -> <<1, 0>>
      [] sent = "paris"      -> <<1, 0>>
      [] sent = "eiffel"     -> <<7, 1>>
      [] sent = "eiffelLong" -> <<7, 1>>
      [] sent = "cats"       -> <<0, 1>>
      [] sent = "companions" -> <<1, 7>>

ThresholdChoices == {[num |-> 0, den |-> 100], [num |-> 65, den |-> 100]}
MaxTokensChoices == {0, 3}
MinTokensChoices == {0, 2, 3, 4}

Documents == UNION {[1..n -> SentenceCatalogue] : n \in 0..MaxLen}

----------------------------------------------------------------------------
(* cosineSimilarity *)

RECURSIVE DotUpTo(_, _, _)
DotUpTo(a, b, n) ==
    IF n = 0 THEN 0 ELSE DotUpTo(a, b, n - 1) + a[n] * b[n]

\* The three accumulators of the loop over a.length.  A component b[k] that
\* does not exist is undefined in JavaScript and turns the sums into NaN.
CosineSimilarity(a, b) ==
    IF Len(b) < Len(a)
    THEN [nan |-> TRUE, dot |-> 0, normA |-> 0, normB |-> 0]
    ELSE LET dot   == DotUpTo(a, b, Len(a))
             normA == DotUpTo(a, a, Len(a))
             normB == DotUpTo(b, b, Len(a))
         IN  [nan |-> (normA * normB = 0),      \* 0 / 0
              dot |-> dot, normA |-> normA, normB |-> normB]

\* similarity < threshold for similarity = dot / (sqrt(normA) * sqrt(normB))
\* and threshold = num / den; any comparison with NaN is false.
LessThan(similarity, thr) ==
    IF similarity.nan THEN FALSE
    ELSE LET l  == similarity.dot * thr.den
             nn == similarity.normA * similarity.normB
         IN  CASE l < 0  /\ thr.num >= 0 -> TRUE
               [] l >= 0 /\ thr.num <= 0 -> FALSE
               [] l >= 0 /\ thr.num > 0  -> l * l < thr.num * thr.num * nn
               [] l < 0  /\ thr.num < 0  -> l * l > thr.num * thr.num * nn

----------------------------------------------------------------------------
(* Array.prototype.join(' ') *)

\* Mutant: the sentences are concatenated without the separator.
RECURSIVE Join_NoSeparator(_)
Join_NoSeparator(list) ==
    IF Len(list) = 0 THEN <<>> ELSE <<list[1]>> \o Join_NoSeparator(Tail(list))

RECURSIVE Join(_)
Join(list) ==
    IF Len(list) = 0 THEN <<>>
    ELSE IF Len(list) = 1 THEN <<list[1]>>
    ELSE <<list[1], " ">> \o Join(Tail(list))

----------------------------------------------------------------------------
(* Promise.all *)

\* Mutant: results are appended in completion order.
PromiseAllSlot_CompletionOrder(k, cs) ==
    Cardinality({j \in DOMAIN cs : cs[j] = "fulfilled"}) + 1

\* The slot of Promise.all's result array that the k-th promise fills.
PromiseAllSlot(k, cs) == k

\* Mutant: Promise.allSettled semantics, a rejection does not fail the await.
PromiseAllOutcome_AllSettled(cs) ==
    IF \A k \in DOMAIN cs : cs[k] # "pending" THEN "resolved" ELSE "pending"

\* Promise.all rejects as soon as one promise rejects and resolves when all
\* have fulfilled.
PromiseAllOutcome(cs) ==
    IF \E k \in DOMAIN cs : cs[k] = "rejected" THEN "rejected"
    ELSE IF \A k \in DOMAIN cs : cs[k] = "fulfilled" THEN "resolved"
    ELSE "pending"

----------------------------------------------------------------------------
(* The for loop *)

\* Mutant: the similarity is taken against the first sentence.
PrevEmbedding_FirstSentence(embs, k) == embs[1]

PrevEmbedding(embs, k) == embs[k - 1]

\* Mutant: a split needs both the topic shift and the size overflow.
ShouldSplit_BothRequired(similarity, curTokens, sentTokens) ==
    LessThan(similarity, threshold) /\ curTokens + sentTokens > maxTokens

ShouldSplit(similarity, curTokens, sentTokens) ==
    LessThan(similarity, threshold) \/ curTokens + sentTokens > maxTokens

\* Mutant: the minTokens guard is dropped.
CommitSplit_IgnoreMin(shouldSplit, curTokens) == shouldSplit

CommitSplit(shouldSplit, curTokens) ==
    shouldSplit /\ curTokens >= minTokens

\* One iteration of the loop body for sentence k.
LoopIter(cks, cur, curTokens, k, embs) ==
    LET sent       == sentences[k]
        sentTokens == Tokens(sent)
    IN  IF Len(cur) = 0
        THEN [chunks |-> cks, currentSentences |-> Append(cur, sent),
              currentTokens |-> curTokens + sentTokens]
        ELSE LET similarity == CosineSimilarity(PrevEmbedding(embs, k), embs[k])
                 split == CommitSplit(ShouldSplit(similarity, curTokens, sentTokens),
                                      curTokens)
             IN  IF split
                 THEN [chunks |-> Append(cks, Join(cur)),
                       currentSentences |-> <<sent>>,
                       currentTokens |-> sentTokens]
                 ELSE [chunks |-> cks, currentSentences |-> Append(cur, sent),
                       currentTokens |-> curTokens + sentTokens]

\* Mutant: the current chunk is pushed without the length check.
FinalChunks_AlwaysPush(cks, cur) == Append(cks, Join(cur))

\* The last chunk (sentences that were not finalized in the loop).
FinalChunks(cks, cur) ==
    IF Len(cur) > 0 THEN Append(cks, Join(cur)) ELSE cks

\* The whole walk from sentence k on: the loop, then the last chunk.
RECURSIVE Walk(_, _, _, _, _)
Walk(cks, cur, curTokens, k, embs) ==
    IF k > Len(sentences) THEN FinalChunks(cks, cur)
    ELSE LET r == LoopIter(cks, cur, curTokens, k, embs)
         IN  Walk(r.chunks, r.currentSentences, r.currentTokens, k + 1, embs)

----------------------------------------------------------------------------
(* The state machine of semanticChunkWithLimits *)

\* No evaluation is running.
EvalIdle ==
    /\ collection = {}
    /\ testQuestions = <<>>
    /\ evalPc = "idle"
    /\ evalI = 1
    /\ searched = <<>>
    /\ results = <<>>
    /\ totalQuestions = 0
    /\ aggregateMetrics = <<>>
    /\ metricsByCategory = <<>>

\* No query of the benchmark is being evaluated.
BenchIdle ==
    /\ benchIndex = {}
    /\ groundTruth = <<>>
    /\ benchResults = <<>>
    /\ benchMetrics = <<>>
    /\ benchPc = "idle"

\* The ingestion script is not running.
IngestIdle ==
    /\ files = <<>>
    /\ store = [exists |-> FALSE, points |-> {}]
    /\ exists = FALSE
    /\ ingestPc = "idle"
    /\ fileI = 1
    /\ fileChunks = <<>>
    /\ chunkI = 1
    /\ vector = <<>>
    /\ uuids = 0
    /\ qdrantCalls = <<>>
    /\ produced = <<>>

\* Only the chunker runs.
NotChunkIdle == EvalIdle /\ BenchIdle /\ IngestIdle

Init ==
    /\ sentences \in Documents
    /\ threshold \in ThresholdChoices
    /\ maxTokens \in MaxTokensChoices
    /\ minTokens \in MinTokensChoices
    /\ pc = "start"
    /\ calls = <<>>
    /\ values = <<>>
    /\ sentenceEmbeddings = <<>>
    /\ chunks = <<>>
    /\ currentSentences = <<>>
    /\ currentTokens = 0
    /\ i = 1
    /\ NotChunkIdle

\* sentences.map(s => embedFn(s)) issues every call, then the function
\* suspends on await Promise.all(...).
StartEmbeddings ==
    /\ pc = "start"
    /\ calls' = [k \in 1..Len(sentences) |-> "pending"]
    /\ values' = [k \in 1..Len(sentences) |-> <<>>]
    /\ pc' = "awaiting"
    /\ UNCHANGED notChunkVars
    /\ UNCHANGED <<sentences, threshold, maxTokens, minTokens,
                   sentenceEmbeddings, chunks, currentSentences, currentTokens, i>>

\* The provider answers call k.
EmbedFulfil(k) ==
    /\ pc \in {"awaiting", "rejected"}
    /\ k \in DOMAIN calls
    /\ calls[k] = "pending"
    /\ calls' = [calls EXCEPT ![k] = "fulfilled"]
    /\ values' = IF pc = "awaiting"
                 THEN [values EXCEPT ![PromiseAllSlot(k, calls)] = EmbedFn(sentences[k])]
                 ELSE values
    /\ UNCHANGED notChunkVars
    /\ UNCHANGED <<sentences, threshold, maxTokens, minTokens, pc,
                   sentenceEmbeddings, chunks, currentSentences, currentTokens, i>>

\* The provider fails call k; the await throws and the function rejects.
EmbedReject(k) ==
    /\ pc \in {"awaiting", "rejected"}
    /\ k \in DOMAIN calls
    /\ calls[k] = "pending"
    /\ calls' = [calls EXCEPT ![k] = "rejected"]
    /\ pc' = IF pc = "awaiting" /\ PromiseAllOutcome(calls') = "rejected"
             THEN "rejected" ELSE pc
    /\ UNCHANGED notChunkVars
    /\ UNCHANGED <<sentences, threshold, maxTokens, minTokens, values,
                   sentenceEmbeddings, chunks, currentSentences, currentTokens, i>>

\* Promise.all resolved: the function resumes and sets up the loop.
Resume ==
    /\ pc = "awaiting"
    /\ PromiseAllOutcome(calls) = "resolved"
    /\ sentenceEmbeddings' = values
    /\ chunks' = <<>>
    /\ currentSentences' = <<>>
    /\ currentTokens' = 0
    /\ i' = 1
    /\ pc' = "loop"
    /\ UNCHANGED notChunkVars
    /\ UNCHANGED <<sentences, threshold, maxTokens, minTokens, calls, values>>

LoopStep ==
    /\ pc = "loop"
    /\ i <= Len(sentences)
    /\ LET r == LoopIter(chunks, currentSentences, currentTokens, i, sentenceEmbeddings)
       IN  /\ chunks' = r.chunks
           /\ currentSentences' = r.currentSentences
           /\ currentTokens' = r.currentTokens
    /\ i' = i + 1
    /\ UNCHANGED notChunkVars
    /\ UNCHANGED <<sentences, threshold, maxTokens, minTokens, pc, calls, values,
                   sentenceEmbeddings>>

Return ==
    /\ pc = "loop"
    /\ i > Len(sentences)
    /\ chunks' = FinalChunks(chunks, currentSentences)
    /\ pc' = "done"
    /\ UNCHANGED notChunkVars
    /\ UNCHANGED <<sentences, threshold, maxTokens, minTokens, calls, values,
                   sentenceEmbeddings, currentSentences, currentTokens, i>>

Next ==
    \/ StartEmbeddings
    \/ \E k \in 1..Len(sentences) : EmbedFulfil(k)
    \/ \E k \in 1..Len(sentences) : EmbedReject(k)
    \/ Resume
    \/ LoopStep
    \/ Return

Spec == Init /\ [][Next]_vars

----------------------------------------------------------------------------
(* The two-topic scenario: four sentences, threshold 0.65, maxTokens 500,   *)
(* minTokens 3.                                                             *)

\* The sentences of the scenario document, and a long sentence on the first
\* topic.
ScenarioCatalogue == {"paris", "eiffel", "eiffelLong", "cats", "companions"}

Similarity(s, t) == CosineSimilarity(EmbedFn(s), EmbedFn(t))

\* similarity >= thr and similarity <= thr, false for NaN.
AtLeast(similarity, thr) == ~similarity.nan /\ ~LessThan(similarity, thr)

AtMost(similarity, thr) ==
    /\ ~similarity.nan
    /\ ~LessThan([similarity EXCEPT !.dot = -similarity.dot],
                 [num |-> -thr.num, den |-> thr.den])

\* Sentences 1-2 and 3-4 are mutually similar (>= 0.8), every cross-topic
\* pair is dissimilar (<= 0.3), every sentence has at least minTokens tokens.
ScenarioPrecondition(d) ==
    /\ AtLeast(Similarity(d[1], d[2]), [num |-> 80, den |-> 100])
    /\ AtLeast(Similarity(d[3], d[4]), [num |-> 80, den |-> 100])
    /\ \A a \in {1, 2}, b \in {3, 4} :
           AtMost(Similarity(d[a], d[b]), [num |-> 30, den |-> 100])
    /\ \A k \in 1..4 : Tokens(d[k]) >= 3

ScenarioDocuments ==
    {d \in [1..4 -> ScenarioCatalogue] : ScenarioPrecondition(d)}

ScenarioInit ==
    /\ sentences \in ScenarioDocuments
    /\ threshold = [num |-> 65, den |-> 100]
    /\ maxTokens = 500
    /\ minTokens = 3
    /\ pc = "start"
    /\ calls = <<>>
    /\ values = <<>>
    /\ sentenceEmbeddings = <<>>
    /\ chunks = <<>>
    /\ currentSentences = <<>>
    /\ currentTokens = 0
    /\ i = 1
    /\ NotChunkIdle

SpecScenario == ScenarioInit /\ [][Next]_vars

----------------------------------------------------------------------------
(* Numbers of the evaluation.  A polynomial in lambda = 1 / log2(3) is the  *)
(* sequence of its integer coefficients, constant term first, without       *)
(* trailing zeros.  A value is NaN, Infinity or a quotient num / den of two *)
(* polynomials.  lambda is transcendental, so two quotients are equal       *)
(* exactly when they cross-multiply to the same polynomial.                 *)

Max2(a, b) == IF a >= b THEN a ELSE b

Abs(a) == IF a >= 0 THEN a ELSE -a

RECURSIVE GCD(_, _)
GCD(a, b) == IF b = 0 THEN a ELSE GCD(b, a % b)

Coef(p, k) == IF k \in 1..Len(p) THEN p[k] ELSE 0

RECURSIVE PolyTrim(_)
PolyTrim(p) ==
    IF Len(p) > 0 /\ p[Len(p)] = 0 THEN PolyTrim(SubSeq(p, 1, Len(p) - 1)) ELSE p

PolyAdd(p, q) ==
    PolyTrim([k \in 1..Max2(Len(p), Len(q)) |-> Coef(p, k) + Coef(q, k)])

PolyNeg(p) == [k \in 1..Len(p) |-> -p[k]]

RECURSIVE ConvSum(_, _, _, _)
ConvSum(p, q, k, j) ==
    IF j = 0 THEN 0 ELSE ConvSum(p, q, k, j - 1) + p[j] * Coef(q, k - j + 1)

PolyMul(p, q) ==
    IF Len(p) = 0 \/ Len(q) = 0 THEN <<>>
    ELSE PolyTrim([k \in 1..(Len(p) + Len(q) - 1) |-> ConvSum(p, q, k, Len(p))])

RECURSIVE PolyContent(_)
PolyContent(p) ==
    IF Len(p) = 0 THEN 0 ELSE GCD(Abs(p[1]), PolyContent(Tail(p)))

PolyDivInt(p, c) == [k \in 1..Len(p) |-> p[k] \div c]

\* Bounds of lambda = 0.6309..., in hundredths.
LambdaLow == 63
LambdaHigh == 64
LambdaScale == 100

RECURSIVE Power(_, _)
Power(b, e) == IF e = 0 THEN 1 ELSE b * Power(b, e - 1)

\* A bound of p(lambda) * LambdaScale^(Len(p) - 1): a lower bound when
\* lower is TRUE, an upper bound otherwise.
RECURSIVE PolyBound(_, _, _)
PolyBound(p, k, lower) ==
    IF k > Len(p) THEN 0
    ELSE LET b == IF (p[k] >= 0) = lower THEN LambdaLow ELSE LambdaHigh
         IN  p[k] * Power(b, k - 1) * Power(LambdaScale, Len(p) - k)
             + PolyBound(p, k + 1, lower)

\* The sign of p(lambda): -1, 0 or 1, and 2 when the bounds do not decide it.
PolySign(p) ==
    IF Len(p) = 0 THEN 0
    ELSE IF PolyBound(p, 1, TRUE) > 0 THEN 1
    ELSE IF PolyBound(p, 1, FALSE) < 0 THEN -1
    ELSE 2

NaN == [kind |-> "NaN", num |-> <<>>, den |-> <<1>>]

Infinity == [kind |-> "Infinity", num |-> <<1>>, den |-> <<1>>]

\* num / den in lowest integer terms.
Quotient(num, den) ==
    LET g == GCD(PolyContent(num), PolyContent(den))
    IN  [kind |-> "number", num |-> PolyDivInt(num, g), den |-> PolyDivInt(den, g)]

Num(n) == Quotient(PolyTrim(<<n>>), <<1>>)

IsZero(a) == a.kind = "number" /\ Len(a.num) = 0

\* a + b
Add(a, b) ==
    IF a.kind = "NaN" \/ b.kind = "NaN" THEN NaN
    ELSE IF a.kind = "Infinity" \/ b.kind = "Infinity" THEN Infinity
    ELSE IF a.den = b.den THEN Quotient(PolyAdd(a.num, b.num), a.den)
    ELSE Quotient(PolyAdd(PolyMul(a.num, b.den), PolyMul(b.num, a.den)),
                  PolyMul(a.den, b.den))

\* a / b for a, b >= 0; 0 / 0 is NaN and x / 0 is Infinity.
Div(a, b) ==
    IF a.kind = "NaN" \/ b.kind = "NaN" THEN NaN
    ELSE IF a.kind = "Infinity" /\ b.kind = "Infinity" THEN NaN
    ELSE IF a.kind = "Infinity" THEN Infinity
    ELSE IF b.kind = "Infinity" THEN Num(0)
    ELSE IF IsZero(b) THEN (IF IsZero(a) THEN NaN ELSE Infinity)
    ELSE Quotient(PolyMul(a.num, b.den), PolyMul(a.den, b.num))

\* Math.log2(n) for the positions of a slate of at most three results.
Log2(n) ==
    CASE n = 1 -> Num(0)
      [] n = 2 -> Num(1)
      [] n = 3 -> Quotient(<<1>>, <<0, 1>>)
      [] n = 4 -> Num(2)

\* The sign of a - b for two numbers (denominators are positive).
CompareNumbers(a, b) ==
    PolySign(PolyAdd(PolyMul(a.num, b.den), PolyNeg(PolyMul(b.num, a.den))))

----------------------------------------------------------------------------
(* Strings of the evaluation: a string is the sequence of its characters.   *)

UpperCase ==
    <<"A", "B", "C", "D", "E", "F", "G", "H", "I", "J", "K", "L", "M",
      "N", "O", "P", "Q", "R", "S", "T", "U", "V", "W", "X", "Y", "Z">>

LowerCase ==
    <<"a", "b", "c", "d", "e", "f", "g", "h", "i", "j", "k", "l", "m",
      "n", "o", "p", "q", "r", "s", "t", "u", "v", "w", "x", "y", "z">>

\* String.prototype.toLowerCase
ToLowerCase(str) ==
    [k \in 1..Len(str) |->
        IF \E u \in 1..Len(UpperCase) : UpperCase[u] = str[k]
        THEN LowerCase[CHOOSE u \in 1..Len(UpperCase) : UpperCase[u] = str[k]]
        ELSE str[k]]

\* Mutant: the string has to start with the other.
Includes_PrefixOnly(str, sub) ==
    Len(sub) <= Len(str) /\ SubSeq(str, 1, Len(sub)) = sub

\* String.prototype.includes
Includes(str, sub) ==
    \E start \in 1..(Len(str) - Len(sub) + 1) :
        SubSeq(str, start, start + Len(sub) - 1) = sub

\* Array.prototype.join(' ') on strings
RECURSIVE JoinStrings(_)
JoinStrings(list) ==
    IF Len(list) = 0 THEN <<>>
    ELSE IF Len(list) = 1 THEN list[1]
    ELSE list[1] \o <<" ">> \o JoinStrings(Tail(list))

\* The payload texts of the points of the index.
PointTexts == {"ceoText", "employeeText", "lowerText", "averyText"}

PayloadText(point) ==
    CASE point = "ceoText" ->
           <<"A", "v", "e", "r", "y", " ", "L", "a", "n", "c", "a", "s",
             "t", "e", "r", " ", "i", "s", " ", "t", "h", "e", " ", "C",
             "E", "O">>
      [] point = "employeeText" ->
           <<"L", "a", "n", "c", "a", "s", "t", "e", "r", " ", "i", "s",
             " ", "a", "n", " ", "e", "m", "p", "l", "o", "y", "e", "e">>
      [] point = "lowerText" ->
           <<"t", "h", "e", " ", "c", "e", "o">>
      [] point = "averyText" ->
           <<"a", "v", "e", "r", "y", " ", "l", "a", "n", "c", "a", "s",
           "t", "e", "r">>

\* The keywords of the test cases.
KeywordString(keyword) ==
    CASE keyword = "Avery" -> <<"A", "v", "e", "r", "y">>
      [] keyword = "CEO"   -> <<"C", "E", "O">>
      [] keyword = "CEO Avery Lancaster" ->
           <<"C", "E", "O", " ", "A", "v", "e", "r", "y", " ", "L", "a",
             "n", "c", "a", "s", "t", "e", "r">>

KeywordLists == {<<>>, <<"Avery", "CEO">>}

Categories == {"direct_fact", "temporal"}

TestCases == [keywords : KeywordLists, category : Categories]

\* Test cases of one category, one of them with a keyword of several words.
PhraseKeywordLists == {<<"Avery", "CEO">>, <<"CEO Avery Lancaster">>}

PhraseTestCases == [keywords : PhraseKeywordLists, category : {"direct_fact"}]

\* limit = 3, the default of retrieveChunks, evaluateTestCase and
\* runFullEvaluation.
Limit == 3

MaxQueries == 2

\* The rankings of n distinct points of a set.
Rankings(points, n) ==
    {r \in [1..n -> points] : \A a, b \in 1..n : a # b => r[a] # r[b]}

\* payload.source of a point: the file its text was ingested from.
PayloadSource(point) ==
    CASE point = "ceoText"      -> "employees/Avery Lancaster.md"
      [] point = "employeeText" -> "employees/Avery Lancaster.md"
      [] point = "lowerText"    -> "company/about.md"
      [] point = "averyText"    -> "company/about.md"

\* The score of the result at rank k: scores fall with the rank.
Score(k) == Limit + 1 - k

\* The answer of qdrant.search for a ranking of points: one
\* {score, payload: {text, source}} per point, best first.
RECURSIVE ResultsFrom(_, _)
ResultsFrom(ranking, k) ==
    IF k > Len(ranking) THEN <<>>
    ELSE <<[score   |-> Score(k),
            payload |-> [text   |-> ranking[k],
                         source |-> PayloadSource(ranking[k])]]>>
             \o ResultsFrom(ranking, k + 1)

\* Every slate a search with limit Limit can return.
RetrievedLists ==
    {ResultsFrom(r, 1) : r \in UNION {Rankings(PointTexts, n) : n \in 0..Limit}}

\* What qdrant.search(..., {vector, limit}) can answer on a collection: its
\* limit nearest points, or all of them when it holds fewer, in the order
\* the query vector ranks them.
SearchAnswers(points, limit) ==
    {ResultsFrom(r, 1) :
        r \in Rankings(points, IF Cardinality(points) < limit
                               THEN Cardinality(points) ELSE limit)}

\* The collections of a run: the slate shows the whole collection.
Collections == {c \in SUBSET PointTexts : Cardinality(c) <= Limit}

TestSuites == UNION {[1..n -> TestCases] : n \in 0..MaxQueries}

PhraseSuites == UNION {[1..n -> PhraseTestCases] : n \in 0..MaxQueries}

----------------------------------------------------------------------------
(* The metrics of test.js *)

\* Mutant: only the first keyword is looked for.
CountMatching_FirstOnly(keywords, text) ==
    IF Len(keywords) = 0 THEN 0
    ELSE IF Includes(text, ToLowerCase(KeywordString(keywords[1]))) THEN 1 ELSE 0

\* keywords.filter(...).length over the keyword list.
RECURSIVE CountMatching(_, _)
CountMatching(keywords, text) ==
    IF Len(keywords) = 0 THEN 0
    ELSE (IF Includes(text, ToLowerCase(KeywordString(keywords[1]))) THEN 1 ELSE 0)
         + CountMatching(Tail(keywords), text)

\* Mutant: only the best result is searched for the keywords.
CombinedText_FirstOnly(retrieved) ==
    IF Len(retrieved) = 0 THEN <<>>
    ELSE ToLowerCase(PayloadText(retrieved[1].payload.text))

\* results.map(r => r.payload.text.toLowerCase()).join(' ')
CombinedText(retrieved) ==
    JoinStrings([k \in 1..Len(retrieved) |->
                    ToLowerCase(PayloadText(retrieved[k].payload.text))])

calculateKeywordCoverage(retrieved, keywords) ==
    Div(Num(CountMatching(keywords, CombinedText(retrieved))), Num(Len(keywords)))

\* keywords.some(...) on the text of one result.
HasKeyword(result, keywords) ==
    \E k \in 1..Len(keywords) :
        Includes(ToLowerCase(PayloadText(result.payload.text)),
                 ToLowerCase(KeywordString(keywords[k])))

\* Mutant: the rank is taken 0-based.
ReciprocalOfRank_ZeroBased(k) == Div(Num(1), Num(k - 1))

\* 1 / (i + 1) for the result at 1-based position k.
ReciprocalOfRank(k) == Div(Num(1), Num(k))

calculateMRR(retrieved, keywords) ==
    IF \E k \in 1..Len(retrieved) : HasKeyword(retrieved[k], keywords)
    THEN ReciprocalOfRank(
             CHOOSE k \in 1..Len(retrieved) :
                 /\ HasKeyword(retrieved[k], keywords)
                 /\ \A j \in 1..(k - 1) : ~HasKeyword(retrieved[j], keywords))
    ELSE Num(0)

RelevanceScores(retrieved, keywords) ==
    [k \in 1..Len(retrieved) |->
        Div(Num(CountMatching(keywords, ToLowerCase(PayloadText(retrieved[k].payload.text)))),
            Num(Len(keywords)))]

\* Mutant: the discount of the doc comment, log2(i + 1) for 1-based i.
Discount_DocComment(k) == Log2(k)

\* Math.log2(i + 2) for the result at 1-based position k.
Discount(k) == Log2(k + 1)

\* scores.reduce((sum, rel, i) => sum + rel / Math.log2(i + 2), 0)
RECURSIVE DiscountedSum(_, _)
DiscountedSum(scores, n) ==
    IF n = 0 THEN Num(0)
    ELSE Add(DiscountedSum(scores, n - 1), Div(scores[n], Discount(n)))

\* Insertion of x into a list sorted by (a, b) => b - a; a NaN difference
\* leaves the order as it is.
RECURSIVE InsertDescending(_, _)
InsertDescending(sorted, x) ==
    IF Len(sorted) = 0 THEN <<x>>
    ELSE IF /\ x.kind = "number"
            /\ sorted[1].kind = "number"
            /\ CompareNumbers(x, sorted[1]) = 1
         THEN <<x>> \o sorted
         ELSE <<sorted[1]>> \o InsertDescending(Tail(sorted), x)

\* Mutant: the scores are left in retrieval order.
SortDescending_Unsorted(scores) == scores

\* [...scores].sort((a, b) => b - a)
RECURSIVE SortDescending(_)
SortDescending(scores) ==
    IF Len(scores) = 0 THEN <<>>
    ELSE InsertDescending(SortDescending(SubSeq(scores, 1, Len(scores) - 1)),
                          scores[Len(scores)])

calculateNDCG(retrieved, keywords) ==
    LET relevanceScores == RelevanceScores(retrieved, keywords)
        dcg  == DiscountedSum(relevanceScores, Len(relevanceScores))
        idealScores == SortDescending(relevanceScores)
        idcg == DiscountedSum(idealScores, Len(idealScores))
    IN  IF IsZero(idcg) THEN Num(0) ELSE Div(dcg, idcg)

\* Mutant: the snippets are listed worst first.
RECURSIVE Snippets_Reversed(_)
Snippets_Reversed(retrieved) ==
    IF Len(retrieved) = 0 THEN <<>>
    ELSE Snippets_Reversed(Tail(retrieved))
             \o <<[score  |-> retrieved[1].score,
                   source |-> retrieved[1].payload.source,
                   text   |-> retrieved[1].payload.text]>>

\* results.map(r => ({score: r.score, source: r.payload.source,
\* text: r.payload.text}))
RECURSIVE Snippets(_)
Snippets(retrieved) ==
    IF Len(retrieved) = 0 THEN <<>>
    ELSE <<[score  |-> retrieved[1].score,
            source |-> retrieved[1].payload.source,
            text   |-> retrieved[1].payload.text]>>
             \o Snippets(Tail(retrieved))

\* evaluateTestCase, given what the search returned.
evaluateTestCase(testCase, retrieved) ==
    [category |-> testCase.category,
     keywords |-> testCase.keywords,
     metrics  |-> [keywordCoverage |-> calculateKeywordCoverage(retrieved, testCase.keywords),
                   mrr  |-> calculateMRR(retrieved, testCase.keywords),
                   ndcg |-> calculateNDCG(retrieved, testCase.keywords)],
     chunks   |-> Snippets(retrieved)]

\* evaluateTestCase over every test case and every answer of the search,
\* computed once.
EvaluatedCases ==
    {<<testCase, retrieved, evaluateTestCase(testCase, retrieved)>> :
        testCase \in TestCases \cup PhraseTestCases, retrieved \in RetrievedLists}

EvaluatedCase(testCase, retrieved) ==
    (CHOOSE e \in EvaluatedCases : e[1] = testCase /\ e[2] = retrieved)[3]

MetricNames == {"keywordCoverage", "mrr", "ndcg"}

\* rs.reduce((sum, r) => sum + r.metrics[name], 0)
RECURSIVE SumMetric(_, _, _)
SumMetric(rs, name, n) ==
    IF n = 0 THEN Num(0)
    ELSE Add(SumMetric(rs, name, n - 1), rs[n].metrics[name])

\* Mutant: the sum is divided by one more than the number of results.
MeanMetric_OffByOne(rs, name) ==
    Div(SumMetric(rs, name, Len(rs)), Num(Len(rs) + 1))

MeanMetric(rs, name) == Div(SumMetric(rs, name, Len(rs)), Num(Len(rs)))

\* Mutant: a category collects the results of the other categories.
FilterCategory_Others(rs, category) ==
    SelectSeq(rs, LAMBDA r : r.category # category)

\* results.filter(r => r.category === category)
FilterCategory(rs, category) == SelectSeq(rs, LAMBDA r : r.category = category)

CategoryMetrics(rs, category) ==
    LET categoryResults == FilterCategory(rs, category)
    IN  [count |-> Len(categoryResults),
         keywordCoverage |-> MeanMetric(categoryResults, "keywordCoverage"),
         mrr  |-> MeanMetric(categoryResults, "mrr"),
         ndcg |-> MeanMetric(categoryResults, "ndcg")]

----------------------------------------------------------------------------
(* The state machine of runFullEvaluation *)

\* No chunking is running.
ChunkIdle ==
    /\ sentences = <<>>
    /\ threshold = [num |-> 65, den |-> 100]
    /\ maxTokens = 500
    /\ minTokens = 100
    /\ pc = "idle"
    /\ calls = <<>>
    /\ values = <<>>
    /\ sentenceEmbeddings = <<>>
    /\ chunks = <<>>
    /\ currentSentences = <<>>
    /\ currentTokens = 0
    /\ i = 1

\* Only the evaluator runs.
NotEvalIdle == ChunkIdle /\ BenchIdle /\ IngestIdle

EvalInit ==
    /\ collection \in Collections
    /\ testQuestions \in TestSuites
    /\ evalPc = "loop"
    /\ evalI = 1
    /\ searched = <<>>
    /\ results = <<>>
    /\ totalQuestions = 0
    /\ aggregateMetrics = <<>>
    /\ metricsByCategory = <<>>
    /\ NotEvalIdle

\* One iteration of the loop: the search answers and the result is pushed.
EvaluateNext ==
    /\ evalPc = "loop"
    /\ evalI <= Len(testQuestions)
    /\ \E retrieved \in SearchAnswers(collection, Limit) :
           /\ searched' = Append(searched, retrieved)
           /\ results' = Append(results, EvaluatedCase(testQuestions[evalI], retrieved))
    /\ evalI' = evalI + 1
    /\ UNCHANGED notEvalVars
    /\ UNCHANGED <<collection, testQuestions, evalPc, totalQuestions,
                   aggregateMetrics, metricsByCategory>>

\* embedText or qdrant.search fails: the await throws out of the loop.
RetrieveFails ==
    /\ evalPc = "loop"
    /\ evalI <= Len(testQuestions)
    /\ evalPc' = "rejected"
    /\ UNCHANGED notEvalVars
    /\ UNCHANGED <<collection, testQuestions, evalI, searched, results,
                   totalQuestions, aggregateMetrics, metricsByCategory>>

\* After the loop: the aggregate, the categories and the returned record.
AggregateAndReturn ==
    /\ evalPc = "loop"
    /\ evalI > Len(testQuestions)
    /\ aggregateMetrics' = [name \in MetricNames |-> MeanMetric(results, name)]
    /\ metricsByCategory' =
           [category \in {results[k].category : k \in 1..Len(results)} |->
               CategoryMetrics(results, category)]
    /\ totalQuestions' = Len(testQuestions)
    /\ evalPc' = "done"
    /\ UNCHANGED notEvalVars
    /\ UNCHANGED <<collection, testQuestions, evalI, searched, results>>

EvalNext ==
    \/ EvaluateNext
    \/ RetrieveFails
    \/ AggregateAndReturn

SpecEval == EvalInit /\ [][EvalNext]_vars

\* The evaluation of test cases whose keywords include a phrase.
PhraseInit ==
    /\ collection \in Collections
    /\ testQuestions \in PhraseSuites
    /\ evalPc = "loop"
    /\ evalI = 1
    /\ searched = <<>>
    /\ results = <<>>
    /\ totalQuestions = 0
    /\ aggregateMetrics = <<>>
    /\ metricsByCategory = <<>>
    /\ NotEvalIdle

SpecPhrase == PhraseInit /\ [][EvalNext]_vars

----------------------------------------------------------------------------
(* Vocabulary of the properties *)

\* The sentences of a chunk text: everything but the separators.
SentencesOfChunk(chunk) == SelectSeq(chunk, LAMBDA w : w # " ")

RECURSIVE SumTokens(_)
SumTokens(list) ==
    IF Len(list) = 0 THEN 0 ELSE Tokens(list[1]) + SumTokens(Tail(list))

ChunkTokens(chunk) == SumTokens(SentencesOfChunk(chunk))

\* The texts of a chunk made of the consecutive sentences first..last: the
\* sentences in document order with exactly one " " between neighbours.
RunText(first, last) ==
    [j \in 1..(2 * (last - first) + 1) |->
        IF j % 2 = 1 THEN sentences[first + (j - 1) \div 2] ELSE " "]

\* The chunk list that cuts the document at the positions of starts (the
\* set of sentence positions that open a chunk).
NthStart(starts, k) ==
    CHOOSE s \in starts : Cardinality({t \in starts : t < s}) = k - 1

PartitionChunks(starts) ==
    [k \in 1..Cardinality(starts) |->
        RunText(NthStart(starts, k),
                IF k = Cardinality(starts) THEN Len(sentences)
                ELSE NthStart(starts, k + 1) - 1)]

StartSets ==
    IF Len(sentences) = 0 THEN {{}}
    ELSE {{1} \cup b : b \in SUBSET (2..Len(sentences))}

\* The configurations the data model allows: positive values, minimum <= maximum.
ConfigValid ==
    /\ threshold.num > 0
    /\ maxTokens > 0
    /\ minTokens > 0
    /\ minTokens <= maxTokens

IsZeroVector(v) == \A d \in DOMAIN v : v[d] = 0

\* The loop is about to process sentence i, which is not the first.
AtLaterSentence == pc = "loop" /\ i >= 2 /\ i <= Len(sentences)

SplitCommitted == Len(chunks') = Len(chunks) + 1

----------------------------------------------------------------------------
(* C1: when semanticChunkWithLimits returns, the chunks read in order hold    *)
(* every sentence of the document exactly once and in the original order,    *)
(* each chunk being a run of consecutive sentences joined by one space.      *)
C1_ChunksPartitionSentences ==
    pc = "done" => \E starts \in StartSets : chunks = PartitionChunks(starts)

\* A document of three sentences was returned as two or more chunks, one of
\* them holding several sentences.
C1_Witness ==
    /\ pc = "done"
    /\ ConfigValid
    /\ Len(sentences) = 3
    /\ Len(chunks) = 2
    /\ \E k \in 1..Len(chunks) : Len(chunks[k]) >= 3

(* C2: for every sentence after the first, a new chunk starts there iff      *)
(* (similarity to the immediately preceding sentence is below threshold, or  *)
(* the running token total plus the sentence's tokens exceeds maxTokens) and *)
(* the running total is at least minTokens; otherwise it is appended.        *)
C2_Candidate ==
    \/ LessThan(CosineSimilarity(EmbedFn(sentences[i - 1]), EmbedFn(sentences[i])),
                threshold)
    \/ SumTokens(currentSentences) + Tokens(sentences[i]) > maxTokens

C2_SplitIffCandidateAndMin ==
    [][AtLaterSentence =>
         IF C2_Candidate /\ SumTokens(currentSentences) >= minTokens
         THEN /\ chunks' = Append(chunks, Join(currentSentences))
              /\ currentSentences' = <<sentences[i]>>
         ELSE /\ chunks' = chunks
              /\ currentSentences' = Append(currentSentences, sentences[i])]_vars

\* Both outcomes happened in one walk under a valid configuration: a split
\* was committed on similarity alone (the two-token chunk and the one-token
\* sentence fit maxTokens together), then a sentence was appended.
C2_Witness ==
    /\ pc = "loop"
    /\ ConfigValid
    /\ Len(chunks) = 1
    /\ ChunkTokens(chunks[1]) + Tokens(currentSentences[1]) <= maxTokens
    /\ Len(currentSentences) >= 2

(* C3: every returned chunk except possibly the last has at least minTokens  *)
(* tokens, or is the forced first chunk consisting of a single sentence.     *)
C3_NonLastChunksReachMin ==
    pc = "done" =>
        \A k \in 1..(Len(chunks) - 1) :
            \/ ChunkTokens(chunks[k]) >= minTokens
            \/ (k = 1 /\ Len(SentencesOfChunk(chunks[k])) = 1)

\* A split was held back by minTokens and committed later: a non-last chunk
\* of several sentences under a positive minimum.
C3_Witness ==
    /\ pc = "done"
    /\ ConfigValid
    /\ Len(chunks) >= 2
    /\ Len(SentencesOfChunk(chunks[1])) >= 2

(* C4: whenever every sentence has at most maxTokens tokens, every returned  *)
(* chunk has at most maxTokens tokens.  Stated on valid configurations.      *)
C4_ChunksWithinMaxTokens ==
    (/\ pc = "done"
     /\ ConfigValid
     /\ \A k \in 1..Len(sentences) : Tokens(sentences[k]) <= maxTokens)
    => \A c \in 1..Len(chunks) : ChunkTokens(chunks[c]) <= maxTokens

(* C5: a sentence whose token count exceeds maxTokens forms its own chunk:   *)
(* the chunk that contains it contains no other sentence.  Stated on valid   *)
(* configurations.                                                           *)
C5_OversizeSentenceAlone ==
    (pc = "done" /\ ConfigValid) =>
        \A c \in 1..Len(chunks) :
            (\E j \in 1..Len(chunks[c]) :
                 chunks[c][j] # " " /\ Tokens(chunks[c][j]) > maxTokens)
            => Len(SentencesOfChunk(chunks[c])) = 1

(* C6: when the embedding of sentence i or of sentence i-1 is all zero, the  *)
(* split at sentence i is committed whenever the running token total is at   *)
(* least minTokens.  Stated on valid configurations.                         *)
C6_ZeroEmbeddingForcesSplit ==
    [][(/\ AtLaterSentence
        /\ ConfigValid
        /\ \/ IsZeroVector(EmbedFn(sentences[i]))
           \/ IsZeroVector(EmbedFn(sentences[i - 1]))
        /\ SumTokens(currentSentences) >= minTokens)
       => SplitCommitted]_vars

(* C7: whatever the order in which the embedding calls complete, the         *)
(* embedding used for sentence k is the one computed for sentence k, and the *)
(* returned chunk list is the one the walk yields on those embeddings.       *)
ExpectedEmbeddings == [k \in 1..Len(sentences) |-> EmbedFn(sentences[k])]

C7_EmbeddingsIndexedByPosition ==
    /\ pc = "awaiting" =>
           \A k \in DOMAIN calls :
               calls[k] = "fulfilled" => values[k] = EmbedFn(sentences[k])
    /\ pc \in {"loop", "done"} => sentenceEmbeddings = ExpectedEmbeddings
    /\ pc = "done" => chunks = Walk(<<>>, <<>>, 0, 1, ExpectedEmbeddings)

\* A later call completed before an earlier one, their embeddings differ,
\* and the result sits in the later call's own slot.
C7_Witness ==
    /\ pc = "awaiting"
    /\ Len(sentences) >= 2
    /\ calls[1] = "pending"
    /\ calls[2] = "fulfilled"
    /\ EmbedFn(sentences[1]) # EmbedFn(sentences[2])
    /\ values[2] = EmbedFn(sentences[2])

(* C8: if the embedding call fails for any one sentence, the operation fails *)
(* as a whole: no chunk list is returned and no partial chunk is produced,   *)
(* however many other sentences were embedded.                               *)
C8_EmbeddingFailureFailsWhole ==
    (\E k \in DOMAIN calls : calls[k] = "rejected") =>
        /\ pc = "rejected"
        /\ chunks = <<>>
        /\ currentSentences = <<>>

\* One call failed although every other sentence of a longer document was
\* embedded successfully.
C8_Witness ==
    /\ pc = "rejected"
    /\ Len(calls) >= 3
    /\ Cardinality({k \in DOMAIN calls : calls[k] = "rejected"}) = 1
    /\ Cardinality({k \in DOMAIN calls : calls[k] = "fulfilled"}) = Len(calls) - 1

(* C9: an invalid configuration makes the operation fail before any          *)
(* embedding call is issued; it never proceeds to chunking.                  *)
C9_InvalidConfigFailsFast ==
    ~ConfigValid => (Len(calls) = 0 /\ pc \notin {"loop", "done"})

(* C10: a document of zero sentences yields an empty chunk list and no       *)
(* error; a document of at least one sentence yields at least one chunk and  *)
(* never an empty chunk.                                                     *)
C10_ZeroSentencesZeroChunks ==
    /\ Len(sentences) = 0 => pc # "rejected"
    /\ pc = "done" =>
           /\ Len(sentences) = 0 => chunks = <<>>
           /\ Len(sentences) >= 1 =>
                  /\ Len(chunks) >= 1
                  /\ \A c \in 1..Len(chunks) : Len(SentencesOfChunk(chunks[c])) >= 1

\* The empty document ran to completion.
C10_Witness ==
    /\ pc = "done"
    /\ ConfigValid
    /\ Len(sentences) = 0
    /\ chunks = <<>>

(* C11: in the two-topic scenario (threshold 0.65, maxTokens 500, minTokens  *)
(* 3, every sentence at least 3 tokens) the chunker returns exactly two      *)
(* chunks: sentences 1-2 joined by a space, then sentences 3-4.              *)
ScenarioChunks ==
    <<Join(<<sentences[1], sentences[2]>>), Join(<<sentences[3], sentences[4]>>)>>

C11_ScenarioTwoChunks_Original ==
    pc = "done" => chunks = ScenarioChunks

\* Amended: provided each topic's two sentences fit maxTokens together.
C11_ScenarioTwoChunks ==
    (/\ pc = "done"
     /\ Tokens(sentences[1]) + Tokens(sentences[2]) <= maxTokens
     /\ Tokens(sentences[3]) + Tokens(sentences[4]) <= maxTokens)
    => chunks = ScenarioChunks

\* The document of the scenario was chunked into its two topics.
C11_Witness ==
    /\ pc = "done"
    /\ sentences = <<"paris", "eiffel", "cats", "companions">>
    /\ chunks = <<<<"paris", " ", "eiffel">>, <<"cats", " ", "companions">>>>

----------------------------------------------------------------------------
(* Vocabulary of the evaluation properties *)

\* a and b are the same value: both undefined, or equal numbers.
SameValue(a, b) ==
    /\ a.kind = b.kind
    /\ a.kind = "number" => PolyMul(a.num, b.den) = PolyMul(b.num, a.den)

\* a is a number of the interval [0, 1].
InUnitInterval(a) ==
    /\ a.kind = "number"
    /\ CompareNumbers(a, Num(0)) \in {0, 1}
    /\ CompareNumbers(a, Num(1)) \in {-1, 0}

\* n * a
Times(n, a) ==
    IF a.kind = "number" THEN Quotient(PolyMul(<<n>>, a.num), a.den) ELSE a

Queries == 1..Len(results)

\* The keywords of entry e that occur, case-insensitively, in a string.
KeywordsFoundIn(e, str) ==
    {k \in 1..Len(e.keywords) :
        Includes(ToLowerCase(str), ToLowerCase(KeywordString(e.keywords[k])))}

\* The texts of the snippets of entry e, in their order.
RECURSIVE TextsFrom(_, _)
TextsFrom(e, k) ==
    IF k > Len(e.chunks) THEN <<>>
    ELSE <<e.chunks[k].text>> \o TextsFrom(e, k + 1)

TextsOf(e) == TextsFrom(e, 1)

\* The entries evaluateTestCase can produce.
EvaluatedEntries == {t[3] : t \in EvaluatedCases}

\* For every entry, the number of its keywords found in each of its results.
RECURSIVE CountsFrom(_, _)
CountsFrom(e, k) ==
    IF k > Len(e.chunks) THEN <<>>
    ELSE <<Cardinality(KeywordsFoundIn(e, PayloadText(e.chunks[k].text)))>>
             \o CountsFrom(e, k + 1)

KeywordCountTable ==
    {<<e.keywords, e.chunks, CountsFrom(e, 1)>> : e \in EvaluatedEntries}

KeywordCounts(e) ==
    (CHOOSE t \in KeywordCountTable : t[1] = e.keywords /\ t[2] = e.chunks)[3]

\* The positions of the relevant results of entry e: those whose text holds
\* at least one keyword.
RelevantPositions(e) ==
    LET counts == KeywordCounts(e)
    IN  {k \in 1..Len(e.chunks) : counts[k] > 0}

FirstRelevant(e) ==
    LET relevant == RelevantPositions(e)
    IN  CHOOSE k \in relevant : \A j \in relevant : k <= j

(* C12: the reciprocal rank equals 1/(1+i) for the 0-based index i of the    *)
(* first relevant result, is exactly 0 when no result is relevant, and does  *)
(* not increase as the first relevant result moves down the list.            *)
C12_ReciprocalRank ==
    /\ \A q \in Queries :
           IF RelevantPositions(results[q]) = {}
           THEN results[q].metrics.mrr = Num(0)
           ELSE SameValue(Times(FirstRelevant(results[q]), results[q].metrics.mrr),
                          Num(1))
    /\ \A q1, q2 \in Queries :
           (/\ RelevantPositions(results[q1]) # {}
            /\ \/ RelevantPositions(results[q2]) = {}
               \/ FirstRelevant(results[q1]) <= FirstRelevant(results[q2]))
           => CompareNumbers(results[q1].metrics.mrr, results[q2].metrics.mrr)
                  \in {0, 1}

\* One query found its first relevant result at rank 2, another one at
\* rank 1.
C12_Witness ==
    \E q1, q2 \in Queries :
        /\ RelevantPositions(results[q1]) # {}
        /\ RelevantPositions(results[q2]) # {}
        /\ FirstRelevant(results[q1]) = 1
        /\ FirstRelevant(results[q2]) = 2
        /\ results[q2].metrics.mrr = Quotient(<<1>>, <<2>>)

(* C13: for a non-empty keyword list, keyword coverage is the number of      *)
(* keywords occurring, case-insensitively, as a substring of the             *)
(* concatenation of all retrieved texts, divided by the number of keywords:  *)
(* [Avery, CEO] against "Avery Lancaster is the CEO" gives 1, against        *)
(* "Lancaster is an employee" gives 0.                                       *)
C13_EntryCoverage(e) ==
        LET texts == [k \in 1..Len(e.chunks) |-> PayloadText(e.chunks[k].text)]
        IN  Len(e.keywords) > 0 =>
                /\ SameValue(Times(Len(e.keywords), e.metrics.keywordCoverage),
                             Num(Cardinality(KeywordsFoundIn(e, JoinStrings(texts)))))
                /\ (e.keywords = <<"Avery", "CEO">> /\ TextsOf(e) = <<"ceoText">>)
                       => e.metrics.keywordCoverage = Num(1)
                /\ (e.keywords = <<"Avery", "CEO">> /\ TextsOf(e) = <<"employeeText">>)
                       => e.metrics.keywordCoverage = Num(0)

C13_Entries == {e \in EvaluatedEntries : C13_EntryCoverage(e)}

C13_KeywordCoverage == \A q \in Queries : results[q] \in C13_Entries

\* The query with keywords [Avery, CEO] retrieved "Avery Lancaster is the
\* CEO" and scored 1.
C13_Witness ==
    \E q \in Queries :
        /\ results[q].keywords = <<"Avery", "CEO">>
        /\ TextsOf(results[q]) = <<"ceoText">>
        /\ results[q].metrics.keywordCoverage = Num(1)

(* C14: with an empty keyword list, keyword coverage and the keyword-graded  *)
(* nDCG never divide by zero: the score is the defined number 1.             *)
C14_EmptyKeywordsDefined ==
    \A q \in Queries :
        results[q].keywords = <<>> =>
            /\ results[q].metrics.keywordCoverage = Num(1)
            /\ results[q].metrics.ndcg.kind = "number"

(* C15: nDCG = DCG / IDCG with DCG the sum of relevance_i / log2(i + 2) and  *)
(* IDCG the DCG of the same relevance values in their best order; nDCG is    *)
(* exactly 0 when IDCG = 0 and lies in [0, 1] otherwise, so never above the  *)
(* nDCG 1 of the ideally sorted list.                                        *)
\* The graded relevance of the snippets of entry e from the k-th on: the
\* share of the keywords each text holds.
RECURSIVE RelevanceOf(_, _)
RelevanceOf(e, k) ==
    IF k > Len(e.chunks) THEN <<>>
    ELSE <<Div(Num(KeywordCounts(e)[k]), Num(Len(e.keywords)))>>
             \o RelevanceOf(e, k + 1)

Permuted(scores, perm) == [k \in 1..Len(scores) |-> scores[perm[k]]]

\* The sum of relevance_i / log2(i + 2) over the first n scores, i 0-based.
RECURSIVE DCG(_, _)
DCG(scores, n) ==
    IF n = 0 THEN Num(0)
    ELSE Add(DCG(scores, n - 1), Div(scores[n], Log2((n - 1) + 2)))

C15_EntryNDCG(e) ==
    LET rels  == RelevanceOf(e, 1)
        n     == Len(rels)
        perms == Rankings(1..n, n)
        dcg   == DCG(rels, n)
        dcgs  == {DCG(Permuted(rels, p), n) : p \in perms}
        idcg  == IF NaN \in dcgs THEN NaN
                 ELSE CHOOSE d \in dcgs :
                          \A x \in dcgs : CompareNumbers(x, d) \in {-1, 0}
    IN  IF IsZero(idcg)
        THEN e.metrics.ndcg = Num(0)
        ELSE /\ SameValue(e.metrics.ndcg, Div(dcg, idcg))
             /\ idcg.kind = "number" => InUnitInterval(e.metrics.ndcg)

C15_Entries == {e \in EvaluatedEntries : C15_EntryNDCG(e)}

C15_NDCG == \A q \in Queries : results[q] \in C15_Entries

\* A slate with its best result in second place scored 1 / log2(3), strictly
\* between 0 and 1.
C15_Witness ==
    \E q \in Queries :
        /\ results[q].keywords = <<"Avery", "CEO">>
        /\ TextsOf(results[q]) = <<"employeeText", "ceoText">>
        /\ results[q].metrics.ndcg = Quotient(<<0, 1>>, <<1>>)

(* C16: two result lists holding the same results, in which the relevant     *)
(* results appear in the same order relative to each other, have equal nDCG. *)
SameSlate(e1, e2) ==
    /\ e1.keywords = e2.keywords
    /\ Len(e1.chunks) = Len(e2.chunks)
    /\ {e1.chunks[k].text : k \in 1..Len(e1.chunks)}
           = {e2.chunks[k].text : k \in 1..Len(e2.chunks)}

RECURSIVE RelevantFrom(_, _)
RelevantFrom(e, k) ==
    IF k > Len(e.chunks) THEN <<>>
    ELSE (IF KeywordCounts(e)[k] > 0 THEN <<e.chunks[k].text>> ELSE <<>>)
             \o RelevantFrom(e, k + 1)

RelevantInOrder(e) == RelevantFrom(e, 1)

C16_NDCGInvariant_Original ==
    \A q1, q2 \in Queries :
        (/\ SameSlate(results[q1], results[q2])
         /\ RelevantInOrder(results[q1]) = RelevantInOrder(results[q2]))
        => SameValue(results[q1].metrics.ndcg, results[q2].metrics.ndcg)

\* Amended: the permutation leaves the relevance at every position unchanged.
SameRelevanceAtEveryPosition(e1, e2) ==
    KeywordCounts(e1) = KeywordCounts(e2)

C16_NDCGInvariant ==
    \A q1, q2 \in Queries :
        (/\ SameSlate(results[q1], results[q2])
         /\ SameRelevanceAtEveryPosition(results[q1], results[q2]))
        => SameValue(results[q1].metrics.ndcg, results[q2].metrics.ndcg)

\* Two queries got the same results in different orders, two half-relevant
\* results having traded places, and the same nDCG.
C16_Witness ==
    \E q1, q2 \in Queries :
        /\ Len(results[q1].keywords) > 0
        /\ SameSlate(results[q1], results[q2])
        /\ TextsOf(results[q1]) # TextsOf(results[q2])
        /\ SameRelevanceAtEveryPosition(results[q1], results[q2])
        /\ RelevantPositions(results[q1]) # {}
        /\ results[q1].metrics.ndcg = results[q2].metrics.ndcg

(* C17: every metric value of every per-query, aggregate and per-category    *)
(* MetricSet of a run is a number in [0, 1].                                 *)
C17_MetricsInUnitInterval ==
    /\ \A q \in Queries, name \in MetricNames :
           InUnitInterval(results[q].metrics[name])
    /\ evalPc = "done" =>
           /\ \A name \in MetricNames : InUnitInterval(aggregateMetrics[name])
           /\ \A c \in DOMAIN metricsByCategory, name \in MetricNames :
                  InUnitInterval(metricsByCategory[c][name])

(* C18: for a run over N >= 1 queries, each aggregate metric is exactly the  *)
(* sum of that metric over the N per-query MetricSets divided by N.          *)
RECURSIVE TotalFrom(_, _, _)
TotalFrom(q, name, wanted) ==
    IF q > Len(results) THEN Num(0)
    ELSE Add(IF results[q].category \in wanted THEN results[q].metrics[name] ELSE Num(0),
             TotalFrom(q + 1, name, wanted))

C18_AggregateIsMean ==
    (evalPc = "done" /\ Len(testQuestions) >= 1) =>
        /\ Len(results) = Len(testQuestions)
        /\ \A name \in MetricNames :
               SameValue(Times(Len(testQuestions), aggregateMetrics[name]),
                         TotalFrom(1, name, Categories))

\* Two queries with reciprocal ranks 1 and 1/2 were averaged to 3/4.
C18_Witness ==
    /\ evalPc = "done"
    /\ Len(results) = 2
    /\ results[1].metrics.mrr = Num(1)
    /\ results[2].metrics.mrr = Quotient(<<1>>, <<2>>)
    /\ aggregateMetrics["mrr"] = Quotient(<<3>>, <<4>>)

(* C19: running the aggregation on an empty query set is an error: no run    *)
(* record is returned and no division by a zero count is performed.          *)
C19_EmptyQuerySetIsError ==
    Len(testQuestions) = 0 => evalPc # "done"

(* C20: the per-category MetricSets partition the queries by category: each  *)
(* query is counted in exactly one category, the counts sum to the number of *)
(* queries, no category is empty, and each category's metric is the mean of  *)
(* that metric over exactly the queries of the category.                     *)
QueriesOf(c) == {q \in Queries : results[q].category = c}

RECURSIVE SumOfCounts(_)
SumOfCounts(cs) ==
    IF cs = {} THEN 0
    ELSE LET c == CHOOSE x \in cs : TRUE
         IN  metricsByCategory[c].count + SumOfCounts(cs \ {c})

C20_CategoriesPartition ==
    evalPc = "done" =>
        /\ DOMAIN metricsByCategory = {results[q].category : q \in Queries}
        /\ SumOfCounts(DOMAIN metricsByCategory) = totalQuestions
        /\ \A c \in DOMAIN metricsByCategory :
               /\ metricsByCategory[c].count = Cardinality(QueriesOf(c))
               /\ metricsByCategory[c].count >= 1
               /\ \A name \in MetricNames :
                      SameValue(Times(Cardinality(QueriesOf(c)), metricsByCategory[c][name]),
                                TotalFrom(1, name, {c}))

\* Two queries of different categories with different reciprocal ranks.
C20_Witness ==
    /\ evalPc = "done"
    /\ Len(results) = 2
    /\ results[1].category # results[2].category
    /\ results[1].metrics.mrr = Num(1)
    /\ results[2].metrics.mrr = Num(0)
    /\ metricsByCategory[results[1].category].mrr = Num(1)
    /\ metricsByCategory[results[2].category].mrr = Num(0)

(* C21: a failure of the embedding call or of the index search for one query *)
(* never aborts the evaluation run: the query is recorded as failed and left *)
(* out of the means, the remaining queries are evaluated and the run         *)
(* completes.                                                                *)
C21_FailedQueryNeverAborts == evalPc # "rejected"

(* C23: the run keeps one detailed entry per input query, in input order,    *)
(* each with the query's MetricSet and the retrieved snippets (score,        *)
(* source, text) in rank order, at most top-K of them; totalQuestions is the *)
(* number of detailed entries.                                               *)
C23_DetailedEntries ==
    /\ Len(results) <= Len(testQuestions)
    /\ \A q \in Queries :
           /\ results[q].category = testQuestions[q].category
           /\ results[q].keywords = testQuestions[q].keywords
           /\ DOMAIN results[q].metrics = MetricNames
           /\ Len(results[q].chunks) <= Limit
           /\ Len(results[q].chunks) = Len(searched[q])
           /\ \A k \in 1..Len(searched[q]) :
                  /\ results[q].chunks[k].score  = searched[q][k].score
                  /\ results[q].chunks[k].source = searched[q][k].payload.source
                  /\ results[q].chunks[k].text   = searched[q][k].payload.text
    /\ evalPc = "done" =>
           /\ Len(results) = Len(testQuestions)
           /\ totalQuestions = Len(results)

\* A finished run over two different test cases, each with a full slate of
\* top-K snippets from two source files.
C23_Witness ==
    /\ evalPc = "done"
    /\ Len(results) = 2
    /\ testQuestions[1] # testQuestions[2]
    /\ \A q \in Queries :
           /\ Len(results[q].chunks) = Limit
           /\ results[q].chunks[1].score > results[q].chunks[Limit].score
           /\ results[q].chunks[1].source # results[q].chunks[Limit].source

(* C29: a keyword is counted as found by calculateKeywordCoverage if and     *)
(* only if it occurs, case-insensitively, inside the text of at least one    *)
(* individual retrieved result; so for a non-empty keyword list              *)
(* keywordCoverage > 0 exactly when mrr > 0 and exactly when ndcg > 0.       *)
Positive(a) == a.kind = "number" /\ CompareNumbers(a, Num(0)) = 1

\* The keywords of entry e that some single result holds.
FoundInOneResult(e) ==
    {k \in 1..Len(e.keywords) :
        \E j \in 1..Len(e.chunks) :
            k \in KeywordsFoundIn(e, PayloadText(e.chunks[j].text))}

C29_Original_Entries ==
    {e \in EvaluatedEntries :
        Len(e.keywords) > 0 =>
            /\ SameValue(Times(Len(e.keywords), e.metrics.keywordCoverage),
                         Num(Cardinality(FoundInOneResult(e))))
            /\ Positive(e.metrics.keywordCoverage) <=> Positive(e.metrics.mrr)
            /\ Positive(e.metrics.keywordCoverage) <=> Positive(e.metrics.ndcg)}

C29_FoundIffInOneResult_Original ==
    \A q \in Queries : results[q] \in C29_Original_Entries

\* Amended: every keyword some single result holds is counted (a keyword
\* can also be found across the space that joins two results), so mrr > 0
\* exactly when ndcg > 0, and then keywordCoverage > 0.
C29_Entries ==
    {e \in EvaluatedEntries :
        Len(e.keywords) > 0 =>
            /\ CompareNumbers(Times(Len(e.keywords), e.metrics.keywordCoverage),
                              Num(Cardinality(FoundInOneResult(e)))) \in {0, 1}
            /\ Positive(e.metrics.mrr) <=> Positive(e.metrics.ndcg)
            /\ Positive(e.metrics.mrr) <=> FoundInOneResult(e) # {}
            /\ Positive(e.metrics.mrr) => Positive(e.metrics.keywordCoverage)}

C29_FoundIfInOneResult ==
    \A q \in Queries : results[q] \in C29_Entries

\* One query found its keywords from the second result on; another found
\* its phrase across two results that each hold a part of it.
C29_Witness ==
    \E q1, q2 \in Queries :
        /\ results[q1].keywords = <<"Avery", "CEO">>
        /\ TextsOf(results[q1]) = <<"employeeText", "lowerText", "averyText">>
        /\ results[q1].metrics.keywordCoverage = Num(1)
        /\ results[q1].metrics.mrr = Quotient(<<1>>, <<2>>)
        /\ results[q2].keywords = <<"CEO Avery Lancaster">>
        /\ results[q2].metrics.keywordCoverage = Num(1)
        /\ results[q2].metrics.mrr = Num(0)

----------------------------------------------------------------------------
(* The benchmark evaluation (evaluate.js): one query judged against its      *)
(* ground truth, a (doc_id, section_id) pair.                                *)

\* The points ingest.js stores: section 3 of document A was split into two
\* chunks, the other sections are one chunk each.
BenchPoints ==
    {[doc_id |-> "A", section_id |-> 3, chunk_id |-> 0],
     [doc_id |-> "A", section_id |-> 3, chunk_id |-> 1],
     [doc_id |-> "A", section_id |-> 1, chunk_id |-> 0],
     [doc_id |-> "B", section_id |-> 3, chunk_id |-> 0],
     [doc_id |-> "B", section_id |-> 1, chunk_id |-> 0]}

\* qrels.json: every query has one {doc_id, section_id}.
Qrels == [doc_id : {"A", "B"}, section_id : {1, 3}]

\* limit: 10
TopK == 10

\* The largest collection of a run.
MaxSlate == 3

BenchCollections == {c \in SUBSET BenchPoints : Cardinality(c) <= MaxSlate}

\* The answer of qdrant.search for a ranking of points, best first.
RECURSIVE BenchResultsFrom(_, _)
BenchResultsFrom(ranking, k) ==
    IF k > Len(ranking) THEN <<>>
    ELSE <<[score |-> TopK + 1 - k, payload |-> ranking[k]]>>
             \o BenchResultsFrom(ranking, k + 1)

BenchSearchAnswers(points, limit) ==
    {BenchResultsFrom(r, 1) :
        r \in Rankings(points, IF Cardinality(points) < limit
                               THEN Cardinality(points) ELSE limit)}

\* Mutant: the section is not compared.
IsRelevant_DocOnly(r, truth) == r.payload.doc_id = truth.doc_id

\* Exact match: doc_id and section_id both equal the ground truth's.
IsRelevant(r, truth) ==
    /\ r.payload.doc_id = truth.doc_id
    /\ r.payload.section_id = truth.section_id

\* Mutant: the section is compared in place of the document.
IsDocRelevant_SectionOnly(r, truth) == r.payload.section_id = truth.section_id

\* Document match: only doc_id has to equal the ground truth's.
IsDocRelevant(r, truth) == r.payload.doc_id = truth.doc_id

\* The loop over the results: 1 / (i + 1) at the first exact match, else 0.
ExactMRR(rs, truth) ==
    IF \E k \in 1..Len(rs) : IsRelevant(rs[k], truth)
    THEN Div(Num(1),
             Num(CHOOSE k \in 1..Len(rs) :
                     /\ IsRelevant(rs[k], truth)
                     /\ \A j \in 1..(k - 1) : ~IsRelevant(rs[j], truth)))
    ELSE Num(0)

\* The same loop with the document match.
DocumentMRR(rs, truth) ==
    IF \E k \in 1..Len(rs) : IsDocRelevant(rs[k], truth)
    THEN Div(Num(1),
             Num(CHOOSE k \in 1..Len(rs) :
                     /\ IsDocRelevant(rs[k], truth)
                     /\ \A j \in 1..(k - 1) : ~IsDocRelevant(rs[j], truth)))
    ELSE Num(0)

\* results.slice(0, K)
Slice(rs, K) == SubSeq(rs, 1, IF Len(rs) < K THEN Len(rs) ELSE K)

\* results.slice(0, K).some(r => isRelevant(r, groundTruth)) ? 1 : 0
RecallAt(rs, truth, K) ==
    IF \E k \in 1..Len(Slice(rs, K)) : IsRelevant(Slice(rs, K)[k], truth)
    THEN Num(1) ELSE Num(0)

\* (relevant results in top K) / K
PrecisionAt(rs, truth, K) ==
    Div(Num(Cardinality({k \in 1..Len(Slice(rs, K)) :
                            IsRelevant(Slice(rs, K)[k], truth)})),
        Num(K))

RecallKs == {1, 5, 10}

PrecisionKs == {1, 3, 5}

BenchInit ==
    /\ benchIndex \in BenchCollections
    /\ groundTruth \in Qrels
    /\ benchResults = <<>>
    /\ benchMetrics = <<>>
    /\ benchPc = "search"
    /\ ChunkIdle
    /\ EvalIdle
    /\ IngestIdle

\* Step 1: the query is embedded and the index searched.
BenchSearch ==
    /\ benchPc = "search"
    /\ benchResults' \in BenchSearchAnswers(benchIndex, TopK)
    /\ benchPc' = "metrics"
    /\ UNCHANGED notBenchVars
    /\ UNCHANGED <<benchIndex, groundTruth, benchMetrics>>

\* Steps 2 and 3: the results are judged and the metrics computed.
BenchEvaluate ==
    /\ benchPc = "metrics"
    /\ benchMetrics' =
           [mrr       |-> ExactMRR(benchResults, groundTruth),
            doc_mrr   |-> DocumentMRR(benchResults, groundTruth),
            recall    |-> [K \in RecallKs |-> RecallAt(benchResults, groundTruth, K)],
            precision |-> [K \in PrecisionKs |->
                              PrecisionAt(benchResults, groundTruth, K)]]
    /\ benchPc' = "done"
    /\ UNCHANGED notBenchVars
    /\ UNCHANGED <<benchIndex, groundTruth, benchResults>>

BenchNext == BenchSearch \/ BenchEvaluate

SpecBench == BenchInit /\ [][BenchNext]_vars

(* Vocabulary of the benchmark properties *)

\* The ranks of the results that match the ground truth's document, and of
\* those that match its section too.
DocRanks ==
    {k \in 1..Len(benchResults) : benchResults[k].payload.doc_id = groundTruth.doc_id}

ExactRanks ==
    {k \in DocRanks : benchResults[k].payload.section_id = groundTruth.section_id}

Lowest(ranks) == CHOOSE k \in ranks : \A j \in ranks : k <= j

\* [B, A/3, A/1]
ScenarioRanking ==
    /\ Len(benchResults) = 3
    /\ benchResults[1].payload.doc_id = "B"
    /\ benchResults[2].payload.doc_id = "A" /\ benchResults[2].payload.section_id = 3
    /\ benchResults[3].payload.doc_id = "A" /\ benchResults[3].payload.section_id = 1

(* C25: with the judgment (doc_id = A, section_id = 3) and the ranked        *)
(* results [B, A/3, A/1]: mrr = 1/2, doc_mrr = 1/2, recall@1 = 0,            *)
(* recall@5 = 1 and precision@3 = 1/3; a result is exactly relevant iff its  *)
(* document id and its section id equal the judgment's.                      *)
C25_ExactMatchScenario ==
    benchPc = "done" =>
        /\ (groundTruth = [doc_id |-> "A", section_id |-> 3] /\ ScenarioRanking) =>
               /\ benchMetrics.mrr = Quotient(<<1>>, <<2>>)
               /\ benchMetrics.doc_mrr = Quotient(<<1>>, <<2>>)
               /\ benchMetrics.recall[1] = Num(0)
               /\ benchMetrics.recall[5] = Num(1)
               /\ benchMetrics.precision[3] = Quotient(<<1>>, <<3>>)
        /\ IF ExactRanks = {} THEN benchMetrics.mrr = Num(0)
           ELSE SameValue(Times(Lowest(ExactRanks), benchMetrics.mrr), Num(1))
        /\ \A K \in RecallKs :
               benchMetrics.recall[K] =
                   (IF \E k \in ExactRanks : k <= K THEN Num(1) ELSE Num(0))
        /\ \A K \in PrecisionKs :
               SameValue(Times(K, benchMetrics.precision[K]),
                         Num(Cardinality({k \in ExactRanks : k <= K})))

C25_Witness ==
    /\ benchPc = "done"
    /\ groundTruth = [doc_id |-> "A", section_id |-> 3]
    /\ ScenarioRanking
    /\ benchMetrics.precision[3] = Quotient(<<1>>, <<3>>)

(* C26: each query has exactly one relevant (document, section) pair, so     *)
(* Precision@K is at most 1/K for every query and every retrieved list, also *)
(* when a section was split into several chunks with the same doc_id and     *)
(* section_id.                                                               *)
C26_PrecisionAtMostOneOverK ==
    benchPc = "done" =>
        \A K \in PrecisionKs :
            CompareNumbers(Times(K, benchMetrics.precision[K]), Num(1)) \in {-1, 0}

(* C28: doc_mrr >= mrr for every ranked list and every judgment, with        *)
(* equality whenever the first result matching the judgment's document also  *)
(* matches its section.                                                      *)
C28_DocMRRAtLeastMRR ==
    benchPc = "done" =>
        /\ CompareNumbers(benchMetrics.doc_mrr, benchMetrics.mrr) \in {0, 1}
        /\ (DocRanks # {} /\ Lowest(DocRanks) \in ExactRanks)
               => benchMetrics.doc_mrr = benchMetrics.mrr
        /\ DocRanks = {} => (benchMetrics.doc_mrr = Num(0) /\ benchMetrics.mrr = Num(0))

\* The right document comes first with another section, the right section
\* second: doc_mrr = 1 and mrr = 1/2.
C28_Witness ==
    /\ benchPc = "done"
    /\ DocRanks # {}
    /\ Lowest(DocRanks) = 1
    /\ ExactRanks # {}
    /\ Lowest(ExactRanks) = 2
    /\ benchMetrics.doc_mrr = Num(1)
    /\ benchMetrics.mrr = Quotient(<<1>>, <<2>>)

----------------------------------------------------------------------------
(* The ingestion script (setup_vector_db.js).  It is a module of top-level  *)
(* awaits without a try/catch: an await that rejects ends the process.  The *)
(* call of semanticChunkWithLimits runs the chunker above.                  *)

MaxFiles == 2

\* A relative path is the sequence of its parts: folder names, "/" and, last,
\* the extension.
Extensions == {".md"}

\* The knowledge base: relative path and content (the sentences of the file).
FileCatalogue ==
    { [relativePath |-> <<"employees", "/", "Avery Lancaster", ".md">>,
       content |-> <<"eiffelLong", "cats">>],
      [relativePath |-> <<"company", "/", "about", ".md">>,
       content |-> <<"paris">>],
      [relativePath |-> <<"products", "/", "tower", ".md">>,
       content |-> <<"eiffelLong", "eiffelLong">>],
      [relativePath |-> <<"notes", ".md">>,
       content |-> <<>>] }

\* getAllFiles(FOLDER): every file once.
FileLists ==
    {fs \in UNION {[1..n -> FileCatalogue] : n \in 0..MaxFiles} :
        \A a, b \in DOMAIN fs : a # b => fs[a] # fs[b]}

\* A point an earlier run left in the collection.
OldPoints ==
    { [id |-> 0,
       vector |-> [embedded |-> <<"[", "about", "]", "\n\n", "paris">>],
       payload |-> [text |-> <<"paris">>,
                    source |-> <<"company", "/", "about", ".md">>,
                    category |-> <<"company">>]] }

\* The server before the script starts.
InitialStores ==
    {[exists |-> FALSE, points |-> {}]}
        \cup {[exists |-> TRUE, points |-> ps] : ps \in SUBSET OldPoints}

\* relativePath.split('/')[0]
RECURSIVE SplitFirst(_)
SplitFirst(relativePath) ==
    IF relativePath = <<>> \/ Head(relativePath) = "/"
    THEN <<>>
    ELSE <<Head(relativePath)>> \o SplitFirst(Tail(relativePath))

\* The part of the path after its last "/".
RECURSIVE LastSegment(_)
LastSegment(relativePath) ==
    IF \E k \in DOMAIN relativePath : relativePath[k] = "/"
    THEN LastSegment(Tail(relativePath))
    ELSE relativePath

\* path.basename(relativePath, path.extname(relativePath))
Basename(relativePath) ==
    LET seg == LastSegment(relativePath)
    IN  IF seg # <<>> /\ seg[Len(seg)] \in Extensions
        THEN SubSeq(seg, 1, Len(seg) - 1)
        ELSE seg

\* `[${fileName}]\n\n${textChunk}`
TextForEmbedding(relativePath, textChunk) ==
    <<"[">> \o Basename(relativePath) \o <<"]", "\n\n">> \o textChunk

\* The provider's vector for a text: the vector it computed from that text.
EmbedText(text) == [embedded |-> text]

\* The point with the file-name prefix kept in the payload.
PointFor_Prefixed(id, vec, textChunk, relativePath) ==
    [id |-> id,
     vector |-> vec,
     payload |-> [text |-> TextForEmbedding(relativePath, textChunk),
                  source |-> relativePath,
                  category |-> SplitFirst(relativePath)]]

\* The point of one upsert.
PointFor(id, vec, textChunk, relativePath) ==
    [id |-> id,
     vector |-> vec,
     payload |-> [text |-> textChunk,
                  source |-> relativePath,
                  category |-> SplitFirst(relativePath)]]

IngestInit ==
    /\ files \in FileLists
    /\ store \in InitialStores
    /\ exists = FALSE
    /\ ingestPc = "getCollections"
    /\ fileI = 1
    /\ fileChunks = <<>>
    /\ chunkI = 1
    /\ vector = <<>>
    /\ uuids = 0
    /\ qdrantCalls = <<>>
    /\ produced = <<>>
    /\ ChunkIdle
    /\ EvalIdle
    /\ BenchIdle

notIngestVars == <<evalVars, benchVars>>

\* const collections = await qdrant.getCollections(); const exists = ...
GetCollections ==
    /\ ingestPc = "getCollections"
    /\ exists' = store.exists
    /\ qdrantCalls' = Append(qdrantCalls, "getCollections")
    /\ ingestPc' = IF store.exists THEN "deleteCollection" ELSE "createCollection"
    /\ UNCHANGED <<files, store, fileI, fileChunks, chunkI, vector, uuids, produced>>
    /\ UNCHANGED <<chunkVars, notIngestVars>>

\* if (exists) await qdrant.deleteCollection(COLLECTION_NAME)
DeleteCollection ==
    /\ ingestPc = "deleteCollection"
    /\ store' = [exists |-> FALSE, points |-> {}]
    /\ qdrantCalls' = Append(qdrantCalls, "deleteCollection")
    /\ ingestPc' = "createCollection"
    /\ UNCHANGED <<files, exists, fileI, fileChunks, chunkI, vector, uuids, produced>>
    /\ UNCHANGED <<chunkVars, notIngestVars>>

\* await qdrant.createCollection(COLLECTION_NAME, ...); the server refuses to
\* create a collection that exists.
CreateCollection ==
    /\ ingestPc = "createCollection"
    /\ ~store.exists
    /\ store' = [exists |-> TRUE, points |-> {}]
    /\ qdrantCalls' = Append(qdrantCalls, "createCollection")
    /\ ingestPc' = "file"
    /\ UNCHANGED <<files, exists, fileI, fileChunks, chunkI, vector, uuids, produced>>
    /\ UNCHANGED <<chunkVars, notIngestVars>>

\* An awaited call of the server rejects: the module throws.
QdrantFails ==
    /\ ingestPc \in {"getCollections", "deleteCollection", "createCollection", "upsert"}
    /\ ingestPc' = "aborted"
    /\ UNCHANGED <<files, store, exists, fileI, fileChunks, chunkI, vector, uuids,
                   qdrantCalls, produced>>
    /\ UNCHANGED <<chunkVars, notIngestVars>>

\* The next file of the loop: readFileSync, then semanticChunkWithLimits is
\* called with threshold 0.65, maxTokens 600, minTokens 100.
StartChunking ==
    /\ ingestPc = "file"
    /\ fileI <= Len(files)
    /\ sentences' = files[fileI].content
    /\ threshold' = [num |-> 65, den |-> 100]
    /\ maxTokens' = 600
    /\ minTokens' = 100
    /\ pc' = "start"
    /\ calls' = <<>>
    /\ values' = <<>>
    /\ sentenceEmbeddings' = <<>>
    /\ chunks' = <<>>
    /\ currentSentences' = <<>>
    /\ currentTokens' = 0
    /\ i' = 1
    /\ ingestPc' = "chunking"
    /\ UNCHANGED <<files, store, exists, fileI, fileChunks, chunkI, vector, uuids,
                   qdrantCalls, produced>>
    /\ UNCHANGED notIngestVars

\* const chunks = await semanticChunkWithLimits(...) resolves.
ChunkingDone ==
    /\ ingestPc = "chunking"
    /\ pc = "done"
    /\ fileChunks' = chunks
    /\ chunkI' = 1
    /\ produced' = Append(produced, [source |-> files[fileI].relativePath,
                                     chunks |-> chunks])
    /\ ingestPc' = "embed"
    /\ sentences' = <<>>
    /\ threshold' = [num |-> 65, den |-> 100]
    /\ maxTokens' = 500
    /\ minTokens' = 100
    /\ pc' = "idle"
    /\ calls' = <<>>
    /\ values' = <<>>
    /\ sentenceEmbeddings' = <<>>
    /\ chunks' = <<>>
    /\ currentSentences' = <<>>
    /\ currentTokens' = 0
    /\ i' = 1
    /\ UNCHANGED <<files, store, exists, fileI, vector, uuids, qdrantCalls>>
    /\ UNCHANGED notIngestVars

\* The await of semanticChunkWithLimits rejects: the module throws.
ChunkingFailed ==
    /\ ingestPc = "chunking"
    /\ pc = "rejected"
    /\ ingestPc' = "aborted"
    /\ UNCHANGED <<files, store, exists, fileI, fileChunks, chunkI, vector, uuids,
                   qdrantCalls, produced>>
    /\ UNCHANGED <<chunkVars, notIngestVars>>

\* const vector = await embedText(textForEmbedding)
EmbedChunk ==
    /\ ingestPc = "embed"
    /\ chunkI <= Len(fileChunks)
    /\ vector' = EmbedText(TextForEmbedding(files[fileI].relativePath,
                                            fileChunks[chunkI]))
    /\ ingestPc' = "upsert"
    /\ UNCHANGED <<files, store, exists, fileI, fileChunks, chunkI, uuids,
                   qdrantCalls, produced>>
    /\ UNCHANGED <<chunkVars, notIngestVars>>

\* The await of embedText rejects: the module throws.
EmbedChunkFails ==
    /\ ingestPc = "embed"
    /\ chunkI <= Len(fileChunks)
    /\ ingestPc' = "aborted"
    /\ UNCHANGED <<files, store, exists, fileI, fileChunks, chunkI, vector, uuids,
                   qdrantCalls, produced>>
    /\ UNCHANGED <<chunkVars, notIngestVars>>

\* await qdrant.upsert(COLLECTION_NAME, {points: [{id: crypto.randomUUID(), ...}]});
\* the server refuses an upsert into a collection that does not exist.
Upsert ==
    /\ ingestPc = "upsert"
    /\ store.exists
    /\ uuids' = uuids + 1
    /\ store' = [store EXCEPT !.points =
                    @ \cup {PointFor(uuids', vector, fileChunks[chunkI],
                                     files[fileI].relativePath)}]
    /\ qdrantCalls' = Append(qdrantCalls, "upsert")
    /\ chunkI' = chunkI + 1
    /\ ingestPc' = "embed"
    /\ UNCHANGED <<files, exists, fileI, fileChunks, vector, produced>>
    /\ UNCHANGED <<chunkVars, notIngestVars>>

\* The loop over the chunks of the file ends.
NextFile ==
    /\ ingestPc = "embed"
    /\ chunkI > Len(fileChunks)
    /\ fileI' = fileI + 1
    /\ ingestPc' = "file"
    /\ UNCHANGED <<files, store, exists, fileChunks, chunkI, vector, uuids,
                   qdrantCalls, produced>>
    /\ UNCHANGED <<chunkVars, notIngestVars>>

\* The loop over the files ends and with it the script.
IngestEnd ==
    /\ ingestPc = "file"
    /\ fileI > Len(files)
    /\ ingestPc' = "done"
    /\ UNCHANGED <<files, store, exists, fileI, fileChunks, chunkI, vector, uuids,
                   qdrantCalls, produced>>
    /\ UNCHANGED <<chunkVars, notIngestVars>>

IngestNext ==
    \/ GetCollections
    \/ DeleteCollection
    \/ CreateCollection
    \/ QdrantFails
    \/ StartChunking
    \/ StartEmbeddings
    \/ \E k \in 1..Len(sentences) : EmbedFulfil(k)
    \/ \E k \in 1..Len(sentences) : EmbedReject(k)
    \/ Resume
    \/ LoopStep
    \/ Return
    \/ ChunkingDone
    \/ ChunkingFailed
    \/ EmbedChunk
    \/ EmbedChunkFails
    \/ Upsert
    \/ NextFile
    \/ IngestEnd

SpecIngest == IngestInit /\ [][IngestNext]_vars

----------------------------------------------------------------------------
(* Vocabulary of the ingestion properties *)

\* The positions of the log that hold a call of the given name.
CallsOf(name) == {k \in DOMAIN qdrantCalls : qdrantCalls[k] = name}

\* Every (file, chunk) position of what the chunkings of this run returned.
ProducedChunks ==
    UNION {{<<f, c>> : c \in DOMAIN produced[f].chunks} : f \in DOMAIN produced}

\* The positions that produced the given text for the given source.
ProducedAs(text, source) ==
    {fc \in ProducedChunks :
        /\ produced[fc[1]].source = source
        /\ produced[fc[1]].chunks[fc[2]] = text}

\* The points of the collection that hold the given text for the given source.
StoredAs(text, source) ==
    {p \in store.points : p.payload.text = text /\ p.payload.source = source}

(* C22: a failure of chunking, embedding or upserting for one document does  *)
(* not abort the ingestion: the documents already ingested stay ingested and *)
(* the documents after the failed one are still processed.                   *)
C22_FailureIsolatedToDocument ==
    ~(ingestPc = "aborted" /\ CallsOf("createCollection") # {})

(* C30: an existing collection is deleted before the collection is created   *)
(* and every upsert comes after the creation; when the script has run to     *)
(* completion the collection holds exactly one point per chunk produced in   *)
(* this run, with payload text = the chunk text without the file-name prefix *)
(* and source = the relative path of the file, and no point of an earlier    *)
(* run.                                                                      *)
C30_FreshCollectionOnePointPerChunk ==
    /\ \A d \in CallsOf("deleteCollection"), c \in CallsOf("createCollection") : d < c
    /\ (exists /\ CallsOf("createCollection") # {}) => CallsOf("deleteCollection") # {}
    /\ \A u \in CallsOf("upsert") : \E c \in CallsOf("createCollection") : c < u
    /\ ingestPc = "done" =>
        /\ store.exists
        /\ store.points \cap OldPoints = {}
        /\ Cardinality(store.points) = Cardinality(ProducedChunks)
        /\ \A fc \in ProducedChunks :
               LET text == produced[fc[1]].chunks[fc[2]]
                   source == produced[fc[1]].source
               IN  Cardinality(StoredAs(text, source)) =
                       Cardinality(ProducedAs(text, source))
        /\ \A f \in DOMAIN produced : produced[f].source = files[f].relativePath

\* A run over two files of two chunks each, one of them with the same chunk
\* text twice, against a collection that held a point of an earlier run.
C30_Witness ==
    /\ ingestPc = "done"
    /\ CallsOf("deleteCollection") # {}
    /\ Cardinality(store.points) = 4
    /\ \E p, q \in store.points : p # q /\ p.payload = q.payload
    /\ \E p \in store.points : p.payload.text = <<"cats">>

----------------------------------------------------------------------------
(* The numbers of JavaScript in the sums of runFullEvaluation: IEEE 754      *)
(* doubles that are not negative.  A finite double is the 53 bits of its     *)
(* significand, most significant first, and the exponent of the last bit:    *)
(* value = bits * 2^exp; zero has no bits.  The operators work on limbs of   *)
(* eight bits.                                                               *)

Precision == 53

PowersOfTwo == <<128, 64, 32, 16, 8, 4, 2, 1>>

Zeros(k) == [j \in 1..k |-> 0]

\* The bits without their leading zeros.
Strip(bits) ==
    IF \A k \in DOMAIN bits : bits[k] = 0
    THEN <<>>
    ELSE SubSeq(bits, CHOOSE k \in DOMAIN bits :
                          bits[k] = 1 /\ \A j \in 1..(k - 1) : bits[j] = 0,
                Len(bits))

\* The bits as m limbs of eight bits, most significant first.
ToLimbs(bits, m) ==
    LET padded == Zeros(8 * m - Len(bits)) \o bits
    IN  [j \in 1..m |->
            LET at == 8 * (j - 1)
            IN  padded[at + 1] * 128 + padded[at + 2] * 64 + padded[at + 3] * 32
                + padded[at + 4] * 16 + padded[at + 5] * 8 + padded[at + 6] * 4
                + padded[at + 7] * 2 + padded[at + 8]]

ToBits(limbs) ==
    SubSeq([k \in 1..(8 * Len(limbs)) |->
               (limbs[(k + 7) \div 8] \div PowersOfTwo[((k - 1) % 8) + 1]) % 2],
           1, 8 * Len(limbs))

\* a + b + carry over the limbs k, k-1, ..., 1; the result has one limb more.
RECURSIVE AddLimbs(_, _, _, _)
AddLimbs(a, b, k, carry) ==
    IF k = 0
    THEN <<carry>>
    ELSE LET t == a[k] + b[k] + carry
         IN  AddLimbs(a, b, k - 1, t \div 256) \o <<t % 256>>

\* The sum of two natural numbers given by their bits.
AddBits(a, b) ==
    LET n == IF Len(a) < Len(b) THEN Len(b) ELSE Len(a)
        m == (n + 7) \div 8
    IN  ToBits(AddLimbs(ToLimbs(a, m), ToLimbs(b, m), m, 0))

\* The double nearest to bits * 2^exp, ties to even.
RoundToDouble(bits, exp) ==
    LET s == Strip(bits)
        L == Len(s)
    IN  IF L = 0
        THEN [kind |-> "finite", bits |-> <<>>, exp |-> 0]
        ELSE IF L <= Precision
        THEN [kind |-> "finite", bits |-> s \o Zeros(Precision - L),
              exp |-> exp - (Precision - L)]
        ELSE LET keep == SubSeq(s, 1, Precision)
                 sticky == \E k \in (Precision + 2)..L : s[k] = 1
                 up == s[Precision + 1] = 1 /\ (sticky \/ keep[Precision] = 1)
                 inc == Strip(AddBits(keep, <<1>>))
             IN  IF ~up
                 THEN [kind |-> "finite", bits |-> keep, exp |-> exp + (L - Precision)]
                 ELSE [kind |-> "finite", bits |-> SubSeq(inc, 1, Precision),
                       exp |-> exp + (L - Precision) + (Len(inc) - Precision)]

NaNValue == [kind |-> "nan", bits |-> <<>>, exp |-> 0]

InfinityValue == [kind |-> "infinity", bits |-> <<>>, exp |-> 0]

RECURSIVE IntBits(_)
IntBits(n) == IF n = 0 THEN <<>> ELSE IntBits(n \div 2) \o <<n % 2>>

\* The double of a natural number below 2^31.
FromInt(n) == RoundToDouble(IntBits(n), 0)

\* x + y without the rounding: bits and the exponent of the last bit.
ExactSum(x, y) ==
    LET e == IF x.exp < y.exp THEN x.exp ELSE y.exp
    IN  [bits |-> AddBits(x.bits \o Zeros(x.exp - e), y.bits \o Zeros(y.exp - e)),
         exp |-> e]

\* x + y
Plus(x, y) ==
    IF x.kind = "nan" \/ y.kind = "nan" THEN NaNValue
    ELSE IF x.kind = "infinity" \/ y.kind = "infinity" THEN InfinityValue
    ELSE IF x.bits = <<>> THEN y
    ELSE IF y.bits = <<>> THEN x
    ELSE LET s == ExactSum(x, y) IN RoundToDouble(s.bits, s.exp)

\* The long division of the limbs k, k+1, ... by n; a last limb keeps whether
\* a remainder is left.
RECURSIVE DivLimbs(_, _, _, _)
DivLimbs(limbs, k, rem, n) ==
    IF k > Len(limbs)
    THEN <<IF rem # 0 THEN 1 ELSE 0>>
    ELSE LET r == 256 * rem + limbs[k]
         IN  <<r \div n>> \o DivLimbs(limbs, k + 1, r % n, n)

\* x / n for a natural number n up to 64.
DividedBy(x, n) ==
    IF x.kind = "nan" \/ (n = 0 /\ x.kind = "finite" /\ x.bits = <<>>) THEN NaNValue
    ELSE IF x.kind = "infinity" \/ n = 0 THEN InfinityValue
    ELSE LET m == (Precision + 7) \div 8 + 1
             q == DivLimbs(ToLimbs(x.bits \o Zeros(8), m), 1, 0, n)
         IN  RoundToDouble(ToBits(q), x.exp - 16)

----------------------------------------------------------------------------
(* The aggregation of runFullEvaluation over doubles *)

MaxResults == 3

\* What the evaluation of a query came to: the category, the number of
\* keywords, how many of them were found, and which of the three results
\* contain a keyword.
QueryOutcomes ==
    { [category |-> "direct_fact", keywords |-> 2, found |-> 2, relevant |-> {1, 2, 3}],
      [category |-> "direct_fact", keywords |-> 2, found |-> 1, relevant |-> {3}],
      [category |-> "temporal",    keywords |-> 3, found |-> 1, relevant |-> {3}],
      [category |-> "temporal",    keywords |-> 0, found |-> 0, relevant |-> {}] }

\* The metrics of an outcome as the code computes them: found / length,
\* 1 / (i + 1), and dcg / idcg.  Results of equal relevance give dcg = idcg;
\* the third result alone relevant gives (rel / log2(4)) / (rel / log2(2)),
\* the half of rel divided by rel.
OutcomeResult(o) ==
    [category |-> o.category,
     metrics |->
        [keywordCoverage |-> DividedBy(FromInt(o.found), o.keywords),
         mrr  |-> IF o.relevant = {} THEN FromInt(0)
                  ELSE DividedBy(FromInt(1),
                                 CHOOSE r \in o.relevant : \A q \in o.relevant : r <= q),
         ndcg |-> IF o.relevant = {} THEN FromInt(0)
                  ELSE IF o.relevant = {3} THEN DividedBy(FromInt(1), 2)
                  ELSE FromInt(1)]]

OutcomeResults == {OutcomeResult(o) : o \in QueryOutcomes}

ResultLists == UNION {[1..n -> OutcomeResults] : n \in 0..MaxResults}

\* Mutant: the callback forgets the accumulator.
SumDouble_LastOnly(rs, name, n) ==
    IF n = 0 THEN FromInt(0) ELSE rs[n].metrics[name]

\* rs.reduce((sum, r) => sum + r.metrics[name], 0)
RECURSIVE SumDouble(_, _, _)
SumDouble(rs, name, n) ==
    IF n = 0 THEN FromInt(0)
    ELSE Plus(SumDouble(rs, name, n - 1), rs[n].metrics[name])

\* rs.reduce(...) / rs.length
MeanDouble(rs, name) == DividedBy(SumDouble(rs, name, Len(rs)), Len(rs))

CategoryDoubles(rs, category) ==
    LET categoryResults == FilterCategory(rs, category)
    IN  [count |-> Len(categoryResults),
         keywordCoverage |-> MeanDouble(categoryResults, "keywordCoverage"),
         mrr  |-> MeanDouble(categoryResults, "mrr"),
         ndcg |-> MeanDouble(categoryResults, "ndcg")]

\* The loop of runFullEvaluation has pushed every result.
ReduceInit ==
    /\ results \in ResultLists
    /\ testQuestions = [k \in DOMAIN results |-> [category |-> results[k].category]]
    /\ collection = {}
    /\ evalPc = "aggregate"
    /\ evalI = Len(results) + 1
    /\ searched = <<>>
    /\ totalQuestions = 0
    /\ aggregateMetrics = <<>>
    /\ metricsByCategory = <<>>
    /\ NotEvalIdle

\* The aggregate, the categories and the returned record.
ReduceAndReturn ==
    /\ evalPc = "aggregate"
    /\ aggregateMetrics' = [name \in MetricNames |-> MeanDouble(results, name)]
    /\ metricsByCategory' =
           [category \in {results[k].category : k \in 1..Len(results)} |->
               CategoryDoubles(results, category)]
    /\ totalQuestions' = Len(testQuestions)
    /\ evalPc' = "done"
    /\ UNCHANGED notEvalVars
    /\ UNCHANGED <<collection, testQuestions, evalI, searched, results>>

SpecReduce == ReduceInit /\ [][ReduceAndReturn]_vars

\* The orders in which n results can be collected.
CollectionOrders(n) ==
    {p \in [1..n -> 1..n] : \A a, b \in 1..n : a # b => p[a] # p[b]}

\* The run metrics of the results collected in the given order.
RunMetricsOf(rs) ==
    [aggregateMetrics |-> [name \in MetricNames |-> MeanDouble(rs, name)],
     metricsByCategory |->
        [category \in {rs[k].category : k \in 1..Len(rs)} |->
            CategoryDoubles(rs, category)]]

\* x = y + j units in the last place of y.
UnitsAbove(x, y, j) ==
    LET s == ExactSum(y, [bits |-> IntBits(j), exp |-> y.exp])
        e == IF s.exp < x.exp THEN s.exp ELSE x.exp
    IN  Strip(s.bits \o Zeros(s.exp - e)) = Strip(x.bits \o Zeros(x.exp - e))

\* The two doubles are at most k units in the last place apart.
WithinUnits(x, y, k) ==
    \/ x = y
    \/ /\ x.kind = "finite" /\ y.kind = "finite"
       /\ x.bits # <<>> /\ y.bits # <<>>
       /\ \E j \in 1..k : UnitsAbove(x, y, j) \/ UnitsAbove(y, x, j)

(* C27: the aggregate and the per-category means do not depend on the order  *)
(* in which the per-query results are collected: reducing any permutation of *)
(* the same results yields the same aggregate and the same per-category      *)
(* means.                                                                    *)
C27_OrderIndependent_Original ==
    evalPc = "done" =>
        \A p \in CollectionOrders(Len(results)) :
            LET m == RunMetricsOf(Permuted(results, p))
            IN  /\ m.aggregateMetrics = aggregateMetrics
                /\ m.metricsByCategory = metricsByCategory

(* C27 as amended: reducing any permutation of the same results yields the   *)
(* same categories and counts, and means that agree up to the rounding of    *)
(* the floating-point sums: at most 2n + 1 units in the last place apart for *)
(* n results, and identical for at most two results.                         *)
C27_OrderIndependentUpToRounding ==
    evalPc = "done" =>
        \A p \in CollectionOrders(Len(results)) :
            LET m == RunMetricsOf(Permuted(results, p))
                k == 2 * Len(results) + 1
            IN  /\ DOMAIN m.metricsByCategory = DOMAIN metricsByCategory
                /\ \A name \in MetricNames :
                       /\ WithinUnits(m.aggregateMetrics[name], aggregateMetrics[name], k)
                       /\ \A c \in DOMAIN metricsByCategory :
                              /\ m.metricsByCategory[c].count = metricsByCategory[c].count
                              /\ WithinUnits(m.metricsByCategory[c][name],
                                             metricsByCategory[c][name], k)
                /\ Len(results) <= 2 =>
                       /\ m.aggregateMetrics = aggregateMetrics
                       /\ m.metricsByCategory = metricsByCategory

\* Reciprocal ranks 1, 1 and 1/3: collected with the 1/3 first, the mean of
\* mrr is another double.
C27_Witness ==
    /\ evalPc = "done"
    /\ Len(results) = 3
    /\ results[1].metrics.mrr = FromInt(1)
    /\ results[2].metrics.mrr = FromInt(1)
    /\ results[3].metrics.mrr = DividedBy(FromInt(1), 3)
    /\ MeanDouble(Permuted(results, <<3, 1, 2>>), "mrr") # aggregateMetrics.mrr

====
